---- MODULE Spec2Model ----
(***************************************************************************)
(* Model of the SCD30 driver (src/scd30_lib.cpp): the command/response    *)
(* engine (sendCommand, readbytes, computeCRC8, checkCrc), the            *)
(* measurement cache with its staleness flags (readMeasurement, getCO2,   *)
(* getHumidity, getTemperature, dataAvailable) and the begin sequence.    *)
(*                                                                         *)
(* Every driver call is one action.  The two-wire transport and the       *)
(* device are inputs of the call: a bus script says which transport       *)
(* attempts fail, and the device's answers are byte sequences.  The call  *)
(* is computed over a record w ("world") holding the driver's globals,    *)
(* the remaining bus script and the log of the bus operations performed.  *)
(***************************************************************************)
EXTENDS Integers, Sequences, FiniteSets, TLC

\* ---------------------------------------------------------------- bounds
\* number of transport operations that succeed before the bus starts failing
MaxOkBefore == 3
\* number of consecutive failing transport attempts of a bus script
MaxFails == 4
\* number of transport results of a script in the transfer specification
XferLen == 4
\* length of the byte sequences of the checksum specification
MaxCrcLen == 2
\* number of transport operations that succeed before the bus starts failing
\* during a pseudo single measurement
MaxOkSingle == 9
\* number of data-ready reads the device answers with "not ready" before its
\* sample is ready
MaxNotReady == 12

\* ------------------------------------------------------ program constants
COMMAND_CONTINUOUS_MEASUREMENT == 16
COMMAND_SET_MEASUREMENT_INTERVAL == 17920
COMMAND_GET_DATA_READY == 514
COMMAND_READ_MEASUREMENT == 768
COMMAND_AUTOMATIC_SELF_CALIBRATION == 21254
CMD_STOP_MEAS == 260
CMD_START_SINGLE_MEAS == 6
COMMAND_SET_FORCED_RECALIBRATION_FACTOR == 20996
COMMAND_SET_TEMPERATURE_OFFSET == 21507
COMMAND_SET_ALTITUDE_COMPENSATION == 20738
CMD_READ_SERIALNBR == 53299
CMD_SOFT_RESET == 54020
\* int retry = 10 of StartSingleMeasurement
PollRetryInit == 10
\* retry budget of sendCommand and readbytes: int retry = 3
RetryInit == 3

\* transport results (Wstatus of the twowire library, as named in the driver)
I2C_OK == "I2C_OK"
FailKinds == {"I2C_SDA_NACK", "I2C_SCL_CLKSTR", "I2C_SDA_DATA", "I2C_OTHER"}

\* ------------------------------------------------------------ 8-bit words
RECURSIVE XorBits(_, _, _)
XorBits(a, b, n) ==
    IF n = 0 THEN 0
    ELSE (((a % 2) + (b % 2)) % 2) + (2 * XorBits(a \div 2, b \div 2, n - 1))

Xor8(a, b) == XorBits(a, b, 8)

\* the inner loop without the polynomial
RECURSIVE crcBits_NoXor(_, _)
crcBits_NoXor(crc, i) ==
    IF i = 8 THEN crc ELSE crcBits_NoXor((crc * 2) % 256, i + 1)

\* the inner loop of computeCRC8: i = 0..7
RECURSIVE crcBits(_, _)
crcBits(crc, i) ==
    IF i = 8 THEN crc
    ELSE IF crc >= 128
         THEN crcBits(Xor8((crc * 2) % 256, 49), i + 1)
         ELSE crcBits((crc * 2) % 256, i + 1)

\* the eight rounds applied to every value of the accumulator
CrcRounds == [crc \in 0..255 |-> crcBits(crc, 0)]

\* the outer loop of computeCRC8: x = 0..len-1
RECURSIVE crcBytes(_, _, _, _)
crcBytes(data, len, x, crc) ==
    IF x >= len THEN crc
    ELSE crcBytes(data, len, x + 1, CrcRounds[Xor8(crc, data[x + 1])])

\* computeCRC8 with the accumulator starting at 0
computeCRC8_SeedZero(data, len) == crcBytes(data, len, 0, 0)

computeCRC8(data, len) == crcBytes(data, len, 0, 255)

\* checkCrc comparing the low seven bits only
checkCrc_Low7(data, len, crc_rec) ==
    ~((crc_rec % 128) # (computeCRC8(data, len) % 128))

checkCrc(data, len, crc_rec) == ~(crc_rec # computeCRC8(data, len))

\* --------------------------------------------------------------- the bus
\* The bus is the sequence of results the transport will give to the next
\* attempts (TWI.i2c_write / TWI.i2c_read); once it is used up every
\* attempt succeeds.
RECURSIVE Rep(_, _)
Rep(v, n) == IF n = 0 THEN <<>> ELSE <<v>> \o Rep(v, n - 1)

\* the kind of failure of the script with k successes and n failures
KindOf(k, n) ==
    CASE (k + n) % 4 = 0 -> "I2C_SDA_NACK"
      [] (k + n) % 4 = 1 -> "I2C_SCL_CLKSTR"
      [] (k + n) % 4 = 2 -> "I2C_SDA_DATA"
      [] OTHER -> "I2C_OTHER"

\* scripts of the driver specifications: k attempts succeed, then n attempts
\* fail with one kind of failure, then all succeed
BusScripts ==
    {<<>>} \cup
    {Rep(I2C_OK, k) \o Rep(KindOf(k, n), n) :
        k \in 0..MaxOkBefore, n \in 1..MaxFails}

BusResult(bus) == IF bus = <<>> THEN I2C_OK ELSE Head(bus)

BusNext(bus) == IF bus = <<>> THEN <<>> ELSE Tail(bus)

\* ------------------------------------------------- low level routines
\* F applied to the value of e: the result of one call handed to the code
\* that follows it
Bind(e, F(_)) == CHOOSE y \in {F(x) : x \in {e}} : TRUE

\* if (SCD_DEBUG > level) p_printf(msg): diag is the diagnostic output of
\* the call, one entry for each message
debugPrint(w, level, msg) ==
    IF w.SCD_DEBUG > level THEN [w EXCEPT !.diag = Append(@, msg)] ELSE w

\* the messages of a transfer that ended as r: its announcement at level 1,
\* and at level 2 a message for every failed attempt and one for the error
transferDiag(level, what, r) ==
    (IF level > 0 THEN <<what>> ELSE <<>>) \o
    (IF level > 1
     THEN [i \in 1..(r.attempts - (IF r.ret THEN 1 ELSE 0)) |-> "retrying"]
          \o (IF r.ret THEN <<>> ELSE <<r.result>>)
     ELSE <<>>)

\* One bus operation in the log of a call: op is "write" or "read", bytes
\* the frame written or the bytes read, attempts the number of transport
\* attempts made, result the result of the last attempt.
LogEntry(op, bytes, attempts, result) ==
    [op |-> op, bytes |-> bytes, attempts |-> attempts, result |-> result]

\* Frame with the checksum computed over the opcode and the argument
Frame_CrcWithOpcode(command, arguments, len) ==
    IF len > 2
    THEN LET hi == (arguments \div 256) % 256
             lo == arguments % 256
         IN  SubSeq(<<(command \div 256) % 256, command % 256, hi, lo,
                      computeCRC8(<<(command \div 256) % 256, command % 256,
                                    hi, lo>>, 4)>>, 1, len)
    ELSE SubSeq(<<(command \div 256) % 256, command % 256>>, 1, len)

\* the frame sendCommand builds in buff and writes: buff[0..len-1]
Frame(command, arguments, len) ==
    IF len > 2
    THEN LET hi == (arguments \div 256) % 256
             lo == arguments % 256
         IN  SubSeq(<<(command \div 256) % 256, command % 256, hi, lo,
                      computeCRC8(<<hi, lo>>, 2)>>, 1, len)
    ELSE SubSeq(<<(command \div 256) % 256, command % 256>>, 1, len)

\* sendLoop with the retry test off by one (retry-- >= 0)
RECURSIVE sendLoop_OneMore(_, _, _)
sendLoop_OneMore(bus, retry, attempts) ==
    IF BusResult(bus) # I2C_OK /\ retry >= 0
    THEN sendLoop_OneMore(BusNext(bus), retry - 1, attempts + 1)
    ELSE [bus |-> BusNext(bus), attempts |-> attempts,
          result |-> BusResult(bus), ret |-> (BusResult(bus) = I2C_OK)]

\* sendLoop giving up at once when the device answers with a NACK
RECURSIVE sendLoop_NackTerminal(_, _, _)
sendLoop_NackTerminal(bus, retry, attempts) ==
    IF BusResult(bus) \notin {I2C_OK, "I2C_SDA_NACK"} /\ retry > 0
    THEN sendLoop_NackTerminal(BusNext(bus), retry - 1, attempts + 1)
    ELSE [bus |-> BusNext(bus), attempts |-> attempts,
          result |-> BusResult(bus), ret |-> (BusResult(bus) = I2C_OK)]

\* the while(1) loop of sendCommand
RECURSIVE sendLoop(_, _, _)
sendLoop(bus, retry, attempts) ==
    IF BusResult(bus) # I2C_OK /\ retry > 0
    THEN sendLoop(BusNext(bus), retry - 1, attempts + 1)
    ELSE [bus |-> BusNext(bus), attempts |-> attempts,
          result |-> BusResult(bus), ret |-> (BusResult(bus) = I2C_OK)]

\* sendCommand with no retry once the debug level is 2
sendCommand_DebugNoRetry(w, command, arguments, len) ==
    Bind(sendLoop(w.bus, IF w.SCD_DEBUG > 1 THEN 0 ELSE RetryInit, 1),
      LAMBDA r :
        [w |-> [w EXCEPT !.bus = r.bus,
                         !.trace = Append(@, LogEntry("write",
                                      Frame(command, arguments, len),
                                      r.attempts, r.result)),
                         !.diag = @ \o transferDiag(w.SCD_DEBUG, "sending", r)],
         ret |-> r.ret])

sendCommand(w, command, arguments, len) ==
    Bind(sendLoop(w.bus, RetryInit, 1), LAMBDA r :
        [w |-> [w EXCEPT !.bus = r.bus,
                         !.trace = Append(@, LogEntry("write",
                                      Frame(command, arguments, len),
                                      r.attempts, r.result)),
                         !.diag = @ \o transferDiag(w.SCD_DEBUG, "sending", r)],
         ret |-> r.ret])

\* readLoop retrying a clock stretch time-out once more than other failures
RECURSIVE readLoop_ClkstrExtra(_, _, _)
readLoop_ClkstrExtra(bus, retry, attempts) ==
    IF BusResult(bus) # I2C_OK
       /\ (retry > 0 \/ (retry = 0 /\ BusResult(bus) = "I2C_SCL_CLKSTR"))
    THEN readLoop_ClkstrExtra(BusNext(bus), retry - 1, attempts + 1)
    ELSE [bus |-> BusNext(bus), attempts |-> attempts,
          result |-> BusResult(bus), ret |-> (BusResult(bus) = I2C_OK)]

\* the while(1) loop of readbytes
RECURSIVE readLoop(_, _, _)
readLoop(bus, retry, attempts) ==
    IF BusResult(bus) # I2C_OK /\ retry > 0
    THEN readLoop(BusNext(bus), retry - 1, attempts + 1)
    ELSE [bus |-> BusNext(bus), attempts |-> attempts,
          result |-> BusResult(bus), ret |-> (BusResult(bus) = I2C_OK)]

\* what the device answers to a read of len bytes: to a data-ready read "not
\* ready" while its sample is not ready, then w.rdy
DeviceBytes(w, len) ==
    IF len = 3
    THEN (IF w.notReady > 0 THEN <<0, 0, computeCRC8(<<0, 0>>, 2)>> ELSE w.rdy)
    ELSE IF len = 9 THEN w.serial
    ELSE w.meas

\* the device after a read of len bytes that ended with result ret
DeviceNext(w, len, ret) ==
    IF ret /\ len = 3 /\ w.notReady > 0 THEN w.notReady - 1 ELSE w.notReady

\* buff is filled when the read succeeded; a caller never reads it otherwise
readbytes(w, len) ==
    Bind(readLoop(w.bus, RetryInit, 1), LAMBDA r :
      Bind(IF r.ret THEN DeviceBytes(w, len) ELSE <<>>, LAMBDA buff :
        [w |-> [w EXCEPT !.bus = r.bus,
                         !.notReady = DeviceNext(w, len, r.ret),
                         !.trace = Append(@, LogEntry("read", buff,
                                      r.attempts, r.result)),
                         !.diag = @ \o transferDiag(w.SCD_DEBUG, "read", r)],
         ret |-> r.ret,
         buff |-> buff]))

\* ------------------------------------------------------------ dataAvailable
\* dataAvailable without the checksum test
dataAvailable_NoCrc(w) ==
    Bind(sendCommand(w, COMMAND_GET_DATA_READY, 0, 2), LAMBDA s :
      IF ~s.ret THEN [w |-> [s.w EXCEPT !.daRet = "false"], ret |-> FALSE]
      ELSE Bind(readbytes(s.w, 3), LAMBDA r :
        IF ~r.ret THEN [w |-> [r.w EXCEPT !.daRet = "false"], ret |-> FALSE]
        ELSE IF r.buff[2] = 1
        THEN [w |-> [r.w EXCEPT !.daRet = "true"], ret |-> TRUE]
        ELSE [w |-> [r.w EXCEPT !.daRet = "false"], ret |-> FALSE]))

\* dataAvailable looking at the high byte of the answer
dataAvailable_HighByte(w) ==
    Bind(sendCommand(w, COMMAND_GET_DATA_READY, 0, 2), LAMBDA s :
      IF ~s.ret THEN [w |-> [s.w EXCEPT !.daRet = "false"], ret |-> FALSE]
      ELSE Bind(readbytes(s.w, 3), LAMBDA r :
        IF ~r.ret THEN [w |-> [r.w EXCEPT !.daRet = "false"], ret |-> FALSE]
        ELSE IF ~checkCrc(r.buff, 2, r.buff[3])
        THEN [w |-> [debugPrint(r.w, 1, "crc error") EXCEPT !.daRet = "false"],
              ret |-> FALSE]
        ELSE IF r.buff[1] = 1
        THEN [w |-> [r.w EXCEPT !.daRet = "true"], ret |-> TRUE]
        ELSE [w |-> [r.w EXCEPT !.daRet = "false"], ret |-> FALSE]))

dataAvailable(w) ==
    Bind(sendCommand(w, COMMAND_GET_DATA_READY, 0, 2), LAMBDA s :
      IF ~s.ret THEN [w |-> [s.w EXCEPT !.daRet = "false"], ret |-> FALSE]
      ELSE Bind(readbytes(s.w, 3), LAMBDA r :
        IF ~r.ret THEN [w |-> [r.w EXCEPT !.daRet = "false"], ret |-> FALSE]
        ELSE IF ~checkCrc(r.buff, 2, r.buff[3])
        THEN [w |-> [debugPrint(r.w, 1, "crc error") EXCEPT !.daRet = "false"],
              ret |-> FALSE]
        ELSE IF r.buff[2] = 1
        THEN [w |-> [r.w EXCEPT !.daRet = "true"], ret |-> TRUE]
        ELSE [w |-> [r.w EXCEPT !.daRet = "false"], ret |-> FALSE]))

\* ---------------------------------------------------------- readMeasurement
\* the messages of a parse loop: the values it prints at level 1, and at
\* level 2 the complaint of checkCrc that ended it
parseDiag(w, ok) ==
    IF ok THEN debugPrint(w, 0, "values")
    ELSE debugPrint(debugPrint(w, 0, "values"), 1, "crc error")

\* A 32-bit word (uint32_t, or the bit pattern of a float) is the tuple of
\* its four bytes, most significant first.  w <<= 8; w |= b
ShiftIn(word, b) == <<word[2], word[3], word[4], b>>

Zero32 == <<0, 0, 0, 0>>

\* the parse loop of readMeasurement, x = 0..17; data[y] collects the two
\* bytes a checksum covers
RECURSIVE parseMeasurement(_, _, _, _, _, _, _)
parseMeasurement(buff, x, y, data, tempCO2, tempTemperature, tempHumidity) ==
    IF x >= 18
    THEN [ok |-> TRUE, co2 |-> tempCO2, temperature |-> tempTemperature,
          humidity |-> tempHumidity]
    ELSE IF x \in {0, 1, 3, 4}
    THEN parseMeasurement(buff, x + 1, y + 1,
             [data EXCEPT ![y + 1] = buff[x + 1]],
             ShiftIn(tempCO2, buff[x + 1]), tempTemperature, tempHumidity)
    ELSE IF x \in {6, 7, 9, 10}
    THEN parseMeasurement(buff, x + 1, y + 1,
             [data EXCEPT ![y + 1] = buff[x + 1]],
             tempCO2, ShiftIn(tempTemperature, buff[x + 1]), tempHumidity)
    ELSE IF x \in {12, 13, 15, 16}
    THEN parseMeasurement(buff, x + 1, y + 1,
             [data EXCEPT ![y + 1] = buff[x + 1]],
             tempCO2, tempTemperature, ShiftIn(tempHumidity, buff[x + 1]))
    ELSE IF ~checkCrc(data, 2, buff[x + 1])
    THEN [ok |-> FALSE, co2 |-> tempCO2, temperature |-> tempTemperature,
          humidity |-> tempHumidity]
    ELSE parseMeasurement(buff, x + 1, 0, data,
             tempCO2, tempTemperature, tempHumidity)

\* readMeasurement storing the CO2 field as soon as it is parsed, before the
\* later checksums are verified
readMeasurement_Partial(w) ==
    Bind(dataAvailable(w), LAMBDA d :
      IF ~d.ret THEN [w |-> [d.w EXCEPT !.rmRet = "fail"], ret |-> FALSE]
      ELSE Bind(sendCommand(d.w, COMMAND_READ_MEASUREMENT, 0, 2), LAMBDA s :
        IF ~s.ret THEN [w |-> [s.w EXCEPT !.rmRet = "fail"], ret |-> FALSE]
        ELSE Bind(readbytes(s.w, 18), LAMBDA r :
          IF ~r.ret THEN [w |-> [r.w EXCEPT !.rmRet = "fail"], ret |-> FALSE]
          ELSE Bind(parseMeasurement(r.buff, 0, 0, <<0, 0>>,
                                     Zero32, Zero32, Zero32), LAMBDA p :
            IF ~p.ok THEN [w |-> [r.w EXCEPT !.co2 = p.co2, !.rmRet = "fail"],
                           ret |-> FALSE]
            ELSE [w |-> [r.w EXCEPT !.co2 = p.co2,
                                    !.temperature = p.temperature,
                                    !.humidity = p.humidity,
                                    !.co2HasBeenReported = FALSE,
                                    !.humidityHasBeenReported = FALSE,
                                    !.temperatureHasBeenReported = FALSE,
                                    !.rmRet = "ok"],
                  ret |-> TRUE]))))

\* readMeasurement marking the flags fresh before the answer is verified
readMeasurement_FlagsEarly(w) ==
    Bind(dataAvailable(w), LAMBDA d :
      IF ~d.ret THEN [w |-> [d.w EXCEPT !.rmRet = "fail"], ret |-> FALSE]
      ELSE Bind(sendCommand(d.w, COMMAND_READ_MEASUREMENT, 0, 2), LAMBDA s :
        IF ~s.ret THEN [w |-> [s.w EXCEPT !.rmRet = "fail"], ret |-> FALSE]
        ELSE Bind(readbytes(s.w, 18), LAMBDA r :
          IF ~r.ret THEN [w |-> [r.w EXCEPT !.rmRet = "fail"], ret |-> FALSE]
          ELSE Bind(parseMeasurement(r.buff, 0, 0, <<0, 0>>,
                                     Zero32, Zero32, Zero32), LAMBDA p :
            IF ~p.ok THEN [w |-> [r.w EXCEPT !.co2HasBeenReported = FALSE,
                                            !.humidityHasBeenReported = FALSE,
                                            !.temperatureHasBeenReported = FALSE,
                                            !.rmRet = "fail"],
                           ret |-> FALSE]
            ELSE [w |-> [r.w EXCEPT !.co2 = p.co2,
                                    !.temperature = p.temperature,
                                    !.humidity = p.humidity,
                                    !.co2HasBeenReported = FALSE,
                                    !.humidityHasBeenReported = FALSE,
                                    !.temperatureHasBeenReported = FALSE,
                                    !.rmRet = "ok"],
                  ret |-> TRUE]))))

\* readMeasurement going on to read whatever dataAvailable returned
readMeasurement_NoReadyCheck(w) ==
    Bind(dataAvailable(w), LAMBDA d :
      Bind(sendCommand(d.w, COMMAND_READ_MEASUREMENT, 0, 2), LAMBDA s :
        IF ~s.ret THEN [w |-> [s.w EXCEPT !.rmRet = "fail"], ret |-> FALSE]
        ELSE Bind(readbytes(s.w, 18), LAMBDA r :
          IF ~r.ret THEN [w |-> [r.w EXCEPT !.rmRet = "fail"], ret |-> FALSE]
          ELSE Bind(parseMeasurement(r.buff, 0, 0, <<0, 0>>,
                                     Zero32, Zero32, Zero32), LAMBDA p :
            IF ~p.ok THEN [w |-> [r.w EXCEPT !.rmRet = "fail"], ret |-> FALSE]
            ELSE [w |-> [r.w EXCEPT !.co2 = p.co2,
                                    !.temperature = p.temperature,
                                    !.humidity = p.humidity,
                                    !.co2HasBeenReported = FALSE,
                                    !.humidityHasBeenReported = FALSE,
                                    !.temperatureHasBeenReported = FALSE,
                                    !.rmRet = "ok"],
                  ret |-> TRUE]))))

readMeasurement(w) ==
    Bind(dataAvailable(w), LAMBDA d :
      IF ~d.ret THEN [w |-> [d.w EXCEPT !.rmRet = "fail"], ret |-> FALSE]
      ELSE Bind(sendCommand(d.w, COMMAND_READ_MEASUREMENT, 0, 2), LAMBDA s :
        IF ~s.ret THEN [w |-> [s.w EXCEPT !.rmRet = "fail"], ret |-> FALSE]
        ELSE Bind(readbytes(s.w, 18), LAMBDA r :
          IF ~r.ret THEN [w |-> [r.w EXCEPT !.rmRet = "fail"], ret |-> FALSE]
          ELSE Bind(parseMeasurement(r.buff, 0, 0, <<0, 0>>,
                                     Zero32, Zero32, Zero32), LAMBDA p :
            IF ~p.ok THEN [w |-> [parseDiag(r.w, FALSE) EXCEPT !.rmRet = "fail"],
                           ret |-> FALSE]
            ELSE [w |-> [parseDiag(r.w, TRUE) EXCEPT !.co2 = p.co2,
                                    !.temperature = p.temperature,
                                    !.humidity = p.humidity,
                                    !.co2HasBeenReported = FALSE,
                                    !.humidityHasBeenReported = FALSE,
                                    !.temperatureHasBeenReported = FALSE,
                                    !.rmRet = "ok"],
                  ret |-> TRUE]))))

\* ------------------------------------------------------------- accessors
\* (uint16_t)_co2: the float whose bit pattern is f, truncated toward zero.
\* A value that does not fit uint16_t is undefined behaviour: the builds
\* saturate or wrap.
CastU16(f) ==
    LET sign == f[1] \div 128
        e == ((f[1] % 128) * 2) + (f[2] \div 128)
        m == ((f[2] % 128) * 65536) + (f[3] * 256) + f[4]
    IN  IF e < 127 THEN {0}
        ELSE IF e >= 143 \/ sign = 1 THEN {0, 65535}
        ELSE {(8388608 + m) \div (2 ^ (150 - e))}

\* getCO2 leaving its flag alone
getCO2_NoMark(w) ==
    Bind(IF w.co2HasBeenReported = TRUE THEN readMeasurement(w).w ELSE w,
         LAMBDA w1 : [w |-> w1, ret |-> CastU16(w1.co2)])

\* getCO2 returning 0 when the read it triggered failed
getCO2_ZeroOnError(w) ==
    Bind(IF w.co2HasBeenReported = TRUE THEN readMeasurement(w).w ELSE w,
         LAMBDA w1 :
            [w |-> [w1 EXCEPT !.co2HasBeenReported = TRUE],
             ret |-> IF w1.rmRet = "fail" THEN {0} ELSE CastU16(w1.co2)])

\* the result of readMeasurement is not looked at
getCO2(w) ==
    Bind(IF w.co2HasBeenReported = TRUE THEN readMeasurement(w).w ELSE w,
         LAMBDA w1 :
            [w |-> [w1 EXCEPT !.co2HasBeenReported = TRUE],
             ret |-> CastU16(w1.co2)])

\* getHumidity reading whatever its flag says
getHumidity_AlwaysRead(w) ==
    Bind(readMeasurement(w).w, LAMBDA w1 :
            [w |-> [w1 EXCEPT !.humidityHasBeenReported = TRUE],
             ret |-> {w1.humidity}])

getHumidity(w) ==
    Bind(IF w.humidityHasBeenReported = TRUE THEN readMeasurement(w).w ELSE w,
         LAMBDA w1 :
            [w |-> [w1 EXCEPT !.humidityHasBeenReported = TRUE],
             ret |-> {w1.humidity}])

\* getTemperature reading whatever its flag says
getTemperature_AlwaysRead(w) ==
    Bind(readMeasurement(w).w, LAMBDA w1 :
            [w |-> [w1 EXCEPT !.temperatureHasBeenReported = TRUE],
             ret |-> {w1.temperature}])

getTemperature(w) ==
    Bind(IF w.temperatureHasBeenReported = TRUE THEN readMeasurement(w).w ELSE w,
         LAMBDA w1 :
            [w |-> [w1 EXCEPT !.temperatureHasBeenReported = TRUE],
             ret |-> {w1.temperature}])

\* ------------------------------------------------------------------ begin
beginMeasuring(w, pressureOffset) ==
    sendCommand(debugPrint(w, 0, "Begin measuring"),
                COMMAND_CONTINUOUS_MEASUREMENT,
                IF pressureOffset < 700 \/ pressureOffset > 1200
                THEN 0 ELSE pressureOffset, 5)

StopMeasurement(w) == sendCommand(w, CMD_STOP_MEAS, 0, 2)

\* setMeasurementInterval saving the interval before the range check
setMeasurementInterval_SaveFirst(w, itv) ==
    IF itv < 2 \/ itv > 1800
    THEN [w |-> [w EXCEPT !.interval = itv], ret |-> FALSE]
    ELSE sendCommand([w EXCEPT !.interval = itv],
                     COMMAND_SET_MEASUREMENT_INTERVAL, itv, 5)

setMeasurementInterval(w, itv) ==
    IF itv < 2 \/ itv > 1800
    THEN [w |-> debugPrint(w, 0, "invalid measurement interval"),
          ret |-> FALSE]
    ELSE sendCommand([w EXCEPT !.interval = itv],
                     COMMAND_SET_MEASUREMENT_INTERVAL, itv, 5)

setAutoSelfCalibration(w, enable) ==
    IF enable
    THEN sendCommand([w EXCEPT !.asc = enable],
                     COMMAND_AUTOMATIC_SELF_CALIBRATION, 1, 5)
    ELSE sendCommand([w EXCEPT !.asc = enable],
                     COMMAND_AUTOMATIC_SELF_CALIBRATION, 0, 5)

\* begin_scd30 setting the self calibration before the interval
begin_scd30_AscFirst(w) ==
    IF w.interval > 0
    THEN Bind(beginMeasuring(w, 0), LAMBDA b :
           IF b.ret = TRUE
           THEN Bind(setAutoSelfCalibration(b.w, b.w.asc), LAMBDA a :
                  IF a.ret = FALSE THEN [w |-> a.w, ret |-> FALSE]
                  ELSE setMeasurementInterval(a.w, a.w.interval))
           ELSE setAutoSelfCalibration(b.w, b.w.asc))
    ELSE StopMeasurement(w)

\* a failed beginMeasuring skips the interval only
begin_scd30(w) ==
    IF w.interval > 0
    THEN Bind(beginMeasuring(w, 0), LAMBDA b :
           IF b.ret = TRUE
           THEN Bind(setMeasurementInterval(b.w, b.w.interval), LAMBDA i :
                  IF i.ret = FALSE THEN [w |-> i.w, ret |-> FALSE]
                  ELSE setAutoSelfCalibration(i.w, i.w.asc))
           ELSE setAutoSelfCalibration(b.w, b.w.asc))
    ELSE StopMeasurement(w)

\* twiOk: whether TWI.begin set up the I2C hardware
begin(w, a, itv, twiOk) ==
    IF ~twiOk
    THEN [w |-> debugPrint([w EXCEPT !.interval = itv, !.asc = a], 0,
                           "Can't setup I2c"),
          ret |-> FALSE]
    ELSE begin_scd30(debugPrint([w EXCEPT !.interval = itv, !.asc = a], 0,
                                "setting clock stretching"))

\* ------------------------------------------------- StartSingleMeasurement
\* sleep(1), entered in the log of the call
sleep(w) == [w EXCEPT !.trace = Append(@, LogEntry("sleep", <<>>, 0, I2C_OK))]

\* singlePoll leaving the loop when retry has gone below 0
RECURSIVE singlePoll_OneMore(_, _)
singlePoll_OneMore(w, retry) ==
    Bind(dataAvailable(w), LAMBDA d :
      IF d.ret = FALSE
      THEN IF retry < 0 THEN [w |-> sleep(d.w), ret |-> FALSE]
           ELSE singlePoll_OneMore(sleep(d.w), retry - 1)
      ELSE readMeasurement(d.w))

\* the do-while of StartSingleMeasurement and the read that follows it;
\* ret is stat at the label stop_sm
RECURSIVE singlePoll(_, _)
singlePoll(w, retry) ==
    Bind(dataAvailable(w), LAMBDA d :
      IF d.ret = FALSE
      THEN IF retry = 0 THEN [w |-> sleep(d.w), ret |-> FALSE]
           ELSE singlePoll(sleep(d.w), retry - 1)
      ELSE readMeasurement(d.w))

\* from the label stop_sm on
stop_sm(w, stat, save_asc, save_interval) ==
    Bind(StopMeasurement(w), LAMBDA s :
        [w |-> [s.w EXCEPT !.asc = save_asc, !.interval = save_interval],
         ret |-> stat])

\* StartSingleMeasurement returning at once when begin_scd30 fails
StartSingleMeasurement_NoStopOnFail(w) ==
    Bind(begin_scd30([w EXCEPT !.asc = FALSE, !.interval = 2]), LAMBDA b :
      IF b.ret = FALSE THEN [w |-> b.w, ret |-> FALSE]
      ELSE Bind(singlePoll(b.w, PollRetryInit), LAMBDA p :
             stop_sm(p.w, p.ret, w.asc, w.interval)))

\* StartSingleMeasurement sending the single measurement command of the device
StartSingleMeasurement_Native(w) ==
    sendCommand(w, CMD_START_SINGLE_MEAS, 0, 5)

StartSingleMeasurement(w) ==
    Bind(begin_scd30([w EXCEPT !.asc = FALSE, !.interval = 2]), LAMBDA b :
      Bind(IF b.ret = FALSE THEN [w |-> b.w, ret |-> FALSE]
           ELSE singlePoll(b.w, PollRetryInit), LAMBDA p :
        stop_sm(p.w, p.ret, w.asc, w.interval)))

\* ------------------------------------------- settings, reset, serial number
\* SoftReset going on to begin_scd30 whatever the reset command returned
SoftReset_AlwaysReplay(w) ==
    Bind(sendCommand(w, CMD_SOFT_RESET, 0, 2), LAMBDA s : begin_scd30(s.w))

SoftReset(w) ==
    Bind(sendCommand(w, CMD_SOFT_RESET, 0, 2), LAMBDA s :
        IF s.ret # TRUE THEN [w |-> s.w, ret |-> FALSE] ELSE begin_scd30(s.w))

setForceRecalibration(w, val) ==
    IF val < 400 \/ val > 2000
    THEN [w |-> w, ret |-> FALSE]
    ELSE sendCommand(debugPrint(w, 0, "set forced calibration"),
                     COMMAND_SET_FORCED_RECALIBRATION_FACTOR, val, 5)

\* int16_t tickOffset = tempOffset * 100 for the offset of quarters / 4
\* degrees, a float whose product with 100 is exact; a product that does not
\* fit int16_t is undefined behaviour: the builds saturate or wrap
TickOffsets(quarters) ==
    IF quarters * 25 >= -32768 /\ quarters * 25 <= 32767
    THEN {quarters * 25}
    ELSE {-32768, 32767, (((quarters * 25) + 32768) % 65536) - 32768}

\* setTemperatureOffset without the test of the sign
setTemperatureOffset_NoSignTest(w, quarters, tickOffset) ==
    sendCommand(w, COMMAND_SET_TEMPERATURE_OFFSET, tickOffset % 65536, 5)

\* tickOffset is the value the conversion gave; it is passed as uint16_t
setTemperatureOffset(w, quarters, tickOffset) ==
    IF quarters < 0
    THEN [w |-> w, ret |-> FALSE]
    ELSE sendCommand(debugPrint(w, 0, "set temperature offset"),
                     COMMAND_SET_TEMPERATURE_OFFSET, tickOffset % 65536, 5)

\* altitude is a uint16_t, compared as an int
setAltitudeCompensation(w, altitude) ==
    IF altitude < -1520 \/ altitude > 3040
    THEN [w |-> w, ret |-> FALSE]
    ELSE sendCommand(w, COMMAND_SET_ALTITUDE_COMPENSATION, altitude, 5)

setAmbientPressure(w, pressure_mbar) == beginMeasuring(w, pressure_mbar)

\* the parse loop taking the last checksum byte unchecked
RECURSIVE parseSerial_LastUnchecked(_, _, _, _, _)
parseSerial_LastUnchecked(buff, x, y, data, val) ==
    IF x >= 9 THEN [ok |-> TRUE, val |-> Append(val, 0)]
    ELSE IF x \in {0, 1, 3, 4, 6, 7}
    THEN parseSerial_LastUnchecked(buff, x + 1, y + 1,
                     [data EXCEPT ![y + 1] = buff[x + 1]],
                     Append(val, buff[x + 1]))
    ELSE IF x < 8 /\ ~checkCrc(data, 2, buff[x + 1])
    THEN [ok |-> FALSE, val |-> val]
    ELSE parseSerial_LastUnchecked(buff, x + 1, 0, data, val)

\* the parse loop of getSerialNumber, x = 0..8; val is what has been stored
\* in the caller's buffer
RECURSIVE parseSerial(_, _, _, _, _)
parseSerial(buff, x, y, data, val) ==
    IF x >= 9 THEN [ok |-> TRUE, val |-> Append(val, 0)]
    ELSE IF x \in {0, 1, 3, 4, 6, 7}
    THEN parseSerial(buff, x + 1, y + 1,
                     [data EXCEPT ![y + 1] = buff[x + 1]],
                     Append(val, buff[x + 1]))
    ELSE IF ~checkCrc(data, 2, buff[x + 1])
    THEN [ok |-> FALSE, val |-> val]
    ELSE parseSerial(buff, x + 1, 0, data, val)

getSerialNumber(w) ==
    Bind(sendCommand(debugPrint(w, 0, "Reading serialnumber"),
                     CMD_READ_SERIALNBR, 0, 2), LAMBDA s :
      IF ~s.ret THEN [w |-> s.w, ret |-> FALSE, val |-> <<>>]
      ELSE Bind(readbytes(s.w, 9), LAMBDA r :
        IF ~r.ret THEN [w |-> r.w, ret |-> FALSE, val |-> <<>>]
        ELSE Bind(parseSerial(r.buff, 0, 0, <<0, 0>>, <<>>), LAMBDA p :
          [w |-> IF p.ok THEN debugPrint(r.w, 0, "newline")
                 ELSE debugPrint(r.w, 1, "crc error"),
           ret |-> p.ok, val |-> p.val])))

\* ------------------------------------------------------ computeHeatIndex
\* Decimal numbers in units of 10^-8, kept exactly as hi * 10^6 + lo with
\* 0 <= lo < 10^6 so that no product leaves 32 bits. The inputs drawn are
\* whole degrees and percents, for which every sum below is exact; the code
\* rounds the same sums to float, within 10^-5 of them.
Dec(hi, lo) == [hi |-> hi + (lo \div 1000000), lo |-> lo % 1000000]

\* units + frac / 10^8
Const(units, frac) == Dec(units * 100, frac)

Plus(a, b) == Dec(a.hi + b.hi, a.lo + b.lo)

Minus(a, b) == Dec(a.hi - b.hi, a.lo - b.lo)

\* a times the whole number n, |n| < 2000
Times(a, n) == Dec(a.hi * n, a.lo * n)

Greater(a, b) == a.hi > b.hi \/ (a.hi = b.hi /\ a.lo > b.lo)

\* the largest r with r * r <= x, for 0 <= x <= 10^8
Isqrt(x) == CHOOSE r \in 0..10000 : r * r <= x /\ (r + 1) * (r + 1) > x

\* 0.5 * (temperature + 61.0 + ((temperature - 68.0) * 1.2)
\*        + (percentHumidity * 0.094))
simpleHeatIndex(temperature, percentHumidity) ==
    Plus(Plus(Times(Const(0, 50000000), temperature + 61),
              Times(Const(0, 60000000), temperature - 68)),
         Times(Const(0, 4700000), percentHumidity))

\* the nine terms of the polynomial
polynomial(temperature, percentHumidity) ==
    Plus(Plus(Plus(Plus(
        Minus(Times(Const(2, 4901523), temperature), Const(42, 37900000)),
        Times(Const(10, 14333127), percentHumidity)),
        Minus(Times(Times(Times(Const(0, 122874), temperature), temperature),
                    percentHumidity),
              Times(Times(Const(0, 22475541), temperature), percentHumidity))),
        Minus(Times(Times(Times(Const(0, 85282), temperature),
                          percentHumidity), percentHumidity),
              Plus(Times(Times(Const(0, 683783), temperature), temperature),
                   Times(Times(Const(0, 5481717), percentHumidity),
                         percentHumidity)))),
        Minus(Const(0, 0),
              Times(Times(Times(Times(Const(0, 199), temperature), temperature),
                          percentHumidity), percentHumidity)))

\* the two adjustments of the polynomial; the square root is taken to four
\* decimals
adjustment(hi, temperature, percentHumidity) ==
    IF percentHumidity < 13 /\ temperature >= 80 /\ temperature <= 112
    THEN Minus(hi, Times(Dec(0, 25 * Isqrt(
                   (17 - (IF temperature >= 95 THEN temperature - 95
                          ELSE 95 - temperature)) * 5882000)),
               13 - percentHumidity))
    ELSE IF percentHumidity > 85 /\ temperature >= 80 /\ temperature <= 87
    THEN Plus(hi, Times(Times(Const(0, 2000000), percentHumidity - 85),
                        87 - temperature))
    ELSE hi

\* the value of hi at the return statement, for a temperature in Fahrenheit
\* with the branch taken at 99 instead of 79
fahrenheitHeatIndex_Above99(temperature, percentHumidity) ==
    IF Greater(simpleHeatIndex(temperature, percentHumidity), Const(99, 0))
    THEN adjustment(polynomial(temperature, percentHumidity),
                    temperature, percentHumidity)
    ELSE simpleHeatIndex(temperature, percentHumidity)

\* the value of hi at the return statement, for a temperature in Fahrenheit
fahrenheitHeatIndex(temperature, percentHumidity) ==
    IF Greater(simpleHeatIndex(temperature, percentHumidity), Const(79, 0))
    THEN adjustment(polynomial(temperature, percentHumidity),
                    temperature, percentHumidity)
    ELSE simpleHeatIndex(temperature, percentHumidity)

\* in_temperature is a whole number of degrees, in Celsius a multiple of 5,
\* so that (in_temperature * 1.8) + 32 is whole; (hi - 32) * 0.55555, with
\* 55555 = 5 * 41 * 271, is cut at 10^-8
computeHeatIndex(in_temperature, percentHumidity, isFahrenheit) ==
    IF isFahrenheit
    THEN fahrenheitHeatIndex(in_temperature, percentHumidity)
    ELSE Bind(Times(Times(Times(Minus(fahrenheitHeatIndex(
                                          ((in_temperature * 9) \div 5) + 32,
                                          percentHumidity),
                                      Const(32, 0)), 5), 41), 271),
              LAMBDA p : Dec((p.hi \div 100000),
                             ((p.hi % 100000) * 10) + (p.lo \div 100000)))

\* ------------------------------------------------------ the main program
\* the parameters of the program before the command line is read
init_variables ==
    [asc |-> TRUE, interval |-> 2, frc |-> -1, temp_offset |-> -1,
     altitude |-> -1, pressure |-> -1]

\* One option of the command line: opt is the option letter and option the
\* number strtod read, one that converts to the field's type unchanged.
\* exit: the program ended with EXIT_FAILURE.
parse_cmdline(opt, option, scd) ==
    CASE opt = "a" -> [scd |-> [scd EXCEPT !.asc = TRUE], exit |-> FALSE]
      [] opt = "n" -> [scd |-> [scd EXCEPT !.asc = FALSE], exit |-> FALSE]
      [] opt = "m" ->
           [scd |-> [scd EXCEPT !.altitude = option],
            exit |-> \/ option < -1520 \/ option > 3040
                     \/ scd.pressure # -1]
      [] opt = "p" ->
           [scd |-> [scd EXCEPT !.pressure = option],
            exit |-> \/ (option # 0 /\ (option < 700 \/ option > 1200))
                     \/ scd.altitude # -1]
      [] opt = "i" ->
           [scd |-> [scd EXCEPT !.interval = option],
            exit |-> option < 2 \/ option > 1800]
      [] opt = "o" ->
           [scd |-> [scd EXCEPT !.temp_offset = option],
            exit |-> option < 0 \/ option > 25]
      [] opt = "f" ->
           [scd |-> [scd EXCEPT !.frc = option, !.asc = FALSE],
            exit |-> option < 400 \/ option > 2000]
      [] opt = "k" -> [scd |-> [scd EXCEPT !.interval = 0], exit |-> FALSE]

\* the getopt loop of main over the options argv[x..], until one exits
RECURSIVE getoptLoop(_, _, _)
getoptLoop(argv, x, scd) ==
    IF x > Len(argv) THEN [scd |-> scd, exit |-> FALSE]
    ELSE Bind(parse_cmdline(argv[x].opt, argv[x].option, scd), LAMBDA p :
           IF p.exit THEN p ELSE getoptLoop(argv, x + 1, p.scd))

\* one setter of init_hw: skipped when the parameter is -1; r is the result
\* of what came before it
initStep(r, par, Setter(_)) ==
    IF r.ret # "done" \/ par = -1 THEN r
    ELSE Bind(Setter(r.w), LAMBDA s :
           [w |-> s.w, ret |-> IF s.ret = FALSE THEN "closeout" ELSE "done"])

\* init_hw: begin, then the setters of the parameters given. The int16_t
\* parameters are passed to uint16_t arguments, temp_offset to a float.
\* ret: "exit" after a failed begin, "closeout" after a failed setter,
\* "done" when init_hw returns.
init_hw(w, scd, tickOffset, twiOk) ==
    Bind(begin(w, scd.asc, scd.interval, twiOk), LAMBDA b :
      Bind([w |-> b.w, ret |-> IF b.ret = FALSE THEN "exit" ELSE "done"],
        LAMBDA r0 :
      Bind(initStep(r0, scd.altitude, LAMBDA v :
             setAltitudeCompensation(v, scd.altitude % 65536)), LAMBDA r1 :
      Bind(initStep(r1, scd.pressure, LAMBDA v :
             setAmbientPressure(v, scd.pressure % 65536)), LAMBDA r2 :
      Bind(initStep(r2, scd.frc, LAMBDA v :
             setForceRecalibration(v, scd.frc % 65536)), LAMBDA r3 :
        initStep(r3, scd.temp_offset, LAMBDA v :
             setTemperatureOffset(v, scd.temp_offset * 4, tickOffset)))))))

\* ---------------------------------------------------------- main_loop
RESET_RETRY == 5

\* do_output reads the three values through the accessors and prints them
do_output(w) ==
    Bind(getCO2(w), LAMBDA c :
      Bind(getHumidity(c.w), LAMBDA h : getTemperature(h.w).w))

\* the locals of main_loop when the loop is entered
loopLocals(loop_count) ==
    [pc |-> "loop", reset_retry |-> RESET_RETRY, first |-> TRUE,
     loop_count |-> loop_count,
     loop_set |-> IF loop_count > 0 THEN loop_count ELSE 1,
     falses |-> 0]

\* main_loop up to the loop: the serial number is read, and a single
\* measurement is made and printed when one was asked for
loopEntry(w, perform_single, loop_count) ==
    Bind(getSerialNumber(w), LAMBDA s :
      IF s.ret = FALSE
      THEN [w |-> s.w, loc |-> [pc |-> "closeout"], ret |-> "closeout"]
      ELSE IF perform_single
      THEN Bind(StartSingleMeasurement(s.w), LAMBDA m :
             IF m.ret = FALSE
             THEN [w |-> m.w, loc |-> [pc |-> "closeout"], ret |-> "closeout"]
             ELSE [w |-> do_output(m.w), loc |-> [pc |-> "done"],
                   ret |-> "single"])
      ELSE [w |-> s.w, loc |-> loopLocals(loop_count), ret |-> "loop"])

\* what follows the poll of one iteration, with the test of the retry count
\* made after the decrement: if (--reset_retry == 0)
afterPoll_PreDecrement(w, loc, poll) ==
    IF poll = TRUE
    THEN [w |-> do_output(w), ret |-> "output",
          loc |-> [loc EXCEPT !.reset_retry = RESET_RETRY]]
    ELSE IF loc.reset_retry - 1 = 0
    THEN [w |-> SoftReset(w).w, ret |-> "reset",
          loc |-> [loc EXCEPT !.reset_retry = RESET_RETRY, !.first = TRUE]]
    ELSE [w |-> w, ret |-> IF loc.first THEN "quiet" ELSE "no data available",
          loc |-> [loc EXCEPT !.reset_retry = @ - 1, !.first = FALSE]]

\* what follows the poll of one iteration: if (reset_retry-- == 0)
afterPoll(w, loc, poll) ==
    IF poll = TRUE
    THEN [w |-> do_output(w), ret |-> "output",
          loc |-> [loc EXCEPT !.reset_retry = RESET_RETRY]]
    ELSE IF loc.reset_retry = 0
    THEN [w |-> SoftReset(w).w, ret |-> "reset",
          loc |-> [loc EXCEPT !.reset_retry = RESET_RETRY, !.first = TRUE]]
    ELSE [w |-> w, ret |-> IF loc.first THEN "quiet" ELSE "no data available",
          loc |-> [loc EXCEPT !.reset_retry = @ - 1, !.first = FALSE]]

\* one iteration of the loop: the poll, what follows it, the sleep and the
\* count of the iterations. falses counts the polls that returned false
\* since the last one that returned true and since the last reset.
loopBody(w, loc) ==
    Bind(dataAvailable(w), LAMBDA d :
      Bind(afterPoll(d.w, loc, d.ret), LAMBDA a :
        Bind(IF loc.loop_count > 0 THEN loc.loop_set - 1 ELSE loc.loop_set,
          LAMBDA left :
            [w |-> a.w, ret |-> a.ret, poll |-> d.ret,
             loc |-> [a.loc EXCEPT
                        !.loop_set = left,
                        !.pc = IF left > 0 THEN "loop" ELSE "done",
                        !.falses = IF a.ret \in {"output", "reset"}
                                   THEN 0 ELSE @ + 1]])))

\* ------------------------------------------------------- device answers
\* a data-ready answer: two data bytes and their checksum
MkReady(d0, d1) == <<d0, d1, computeCRC8(<<d0, d1>>, 2)>>

\* an 18-byte measurement answer carrying three 32-bit words
MkMeasurement(c, t, h) ==
    <<c[1], c[2], computeCRC8(<<c[1], c[2]>>, 2),
      c[3], c[4], computeCRC8(<<c[3], c[4]>>, 2),
      t[1], t[2], computeCRC8(<<t[1], t[2]>>, 2),
      t[3], t[4], computeCRC8(<<t[3], t[4]>>, 2),
      h[1], h[2], computeCRC8(<<h[1], h[2]>>, 2),
      h[3], h[4], computeCRC8(<<h[3], h[4]>>, 2)>>

\* one bit of byte pos flipped on the wire
Corrupt(bytes, pos) == [bytes EXCEPT ![pos] = Xor8(@, 1)]

\* a 9-byte serial number answer carrying six characters
MkSerial(c) ==
    <<c[1], c[2], computeCRC8(<<c[1], c[2]>>, 2),
      c[3], c[4], computeCRC8(<<c[3], c[4]>>, 2),
      c[5], c[6], computeCRC8(<<c[5], c[6]>>, 2)>>

\* "123456"
SerialA == MkSerial(<<49, 50, 51, 52, 53, 54>>)

\* 400.0 ppm, 25.0 C, 50.0 %RH
SampleA == MkMeasurement(<<67, 200, 0, 0>>, <<65, 200, 0, 0>>, <<66, 72, 0, 0>>)
\* 800.5 ppm, 20.5 C, 40.0 %RH
SampleB == MkMeasurement(<<68, 72, 32, 0>>, <<65, 164, 0, 0>>, <<66, 32, 0, 0>>)

\* positions of SampleB corrupted in a response: a data byte of the second
\* group, the checksum of the fourth group, the checksum of the last group
CorruptAt == {4, 12, 18}

MeasResponses == {SampleA, SampleB} \cup {Corrupt(SampleB, pos) : pos \in CorruptAt}

ReadyResponses ==
    {MkReady(0, 1), MkReady(0, 0), MkReady(1, 1), Corrupt(MkReady(0, 0), 2)}

Intervals == {0, 1, 2, 5, 1800, 1801}

\* ------------------------------------------------------------------ state
VARIABLES
    co2, temperature, humidity,          \* _co2, _temperature, _humidity
    asc, interval,                       \* _asc, _interval
    co2HasBeenReported, humidityHasBeenReported, temperatureHasBeenReported,
    lastOp, lastArg, lastRet,            \* the last call, its inputs, its result
    trace,                               \* bus operations of the last call
    daRet, rmRet,                        \* results of the dataAvailable and
                                         \* readMeasurement inside the last call
    co2Run, co2RunTx,                    \* consecutive getCO2 calls without a
                                         \* successful read, and their commands
    single,                              \* the sample of the last successful
                                         \* StartSingleMeasurement and the
                                         \* accessors not called since, while
                                         \* nothing else was called
    sampled,                             \* the same for the last successful
                                         \* read that an accessor triggered
    device,                              \* the sensor: whether it measures,
                                         \* and the polls before its next
                                         \* sample
    prog                                 \* the locals and the position of
                                         \* the process that runs

vars == <<co2, temperature, humidity, asc, interval,
          co2HasBeenReported, humidityHasBeenReported,
          temperatureHasBeenReported,
          lastOp, lastArg, lastRet, trace, daRet, rmRet, co2Run, co2RunTx,
          single, sampled, device, prog>>

Accessors == {"getCO2", "getHumidity", "getTemperature"}

NoSingle ==
    [fresh |-> {},
     sample |-> [co2 |-> Zero32, temperature |-> Zero32, humidity |-> Zero32]]

\* a sensor that is not looked at, and no process but the caller
NoDevice == [measuring |-> FALSE, notReady |-> 0]

NoProg == [pc |-> "none"]

Init ==
    /\ co2 = Zero32
    /\ temperature = Zero32
    /\ humidity = Zero32
    /\ asc = TRUE
    /\ interval = 2
    /\ co2HasBeenReported = TRUE
    /\ humidityHasBeenReported = TRUE
    /\ temperatureHasBeenReported = TRUE
    /\ lastOp = "none"
    /\ lastArg = <<>>
    /\ lastRet = FALSE
    /\ trace = <<>>
    /\ daRet = "none"
    /\ rmRet = "none"
    /\ co2Run = 0
    /\ co2RunTx = 0
    /\ single = NoSingle
    /\ sampled = NoSingle
    /\ device = NoDevice
    /\ prog = NoProg

\* the driver's globals at the start of a call, with the inputs of the call
World(bus, rdy, meas) ==
    [co2 |-> co2, temperature |-> temperature, humidity |-> humidity,
     asc |-> asc, interval |-> interval,
     co2HasBeenReported |-> co2HasBeenReported,
     humidityHasBeenReported |-> humidityHasBeenReported,
     temperatureHasBeenReported |-> temperatureHasBeenReported,
     bus |-> bus, rdy |-> rdy, meas |-> meas, notReady |-> 0,
     serial |-> SerialA,
     trace |-> <<>>, daRet |-> "none", rmRet |-> "none",
     SCD_DEBUG |-> 0, diag |-> <<>>]

\* number of commands written in a log
Commands(log) == Cardinality({i \in 1..Len(log) : log[i].op = "write"})

\* the three words of the last 18-byte answer read in a log
LastSample(log) ==
    LET reads == {i \in 1..Len(log) :
                     log[i].op = "read" /\ Len(log[i].bytes) = 18}
        b == log[CHOOSE i \in reads : \A j \in reads : j <= i].bytes
    IN  IF reads = {} THEN NoSingle.sample
        ELSE [co2 |-> <<b[1], b[2], b[4], b[5]>>,
              temperature |-> <<b[7], b[8], b[10], b[11]>>,
              humidity |-> <<b[13], b[14], b[16], b[17]>>]

\* the state after a call op(arg) that ended in world w with result ret,
\* with the sensor in state dev and the process in state prg
ReturnWith(op, arg, w, ret, dev, prg) ==
    /\ co2' = w.co2
    /\ temperature' = w.temperature
    /\ humidity' = w.humidity
    /\ asc' = w.asc
    /\ interval' = w.interval
    /\ co2HasBeenReported' = w.co2HasBeenReported
    /\ humidityHasBeenReported' = w.humidityHasBeenReported
    /\ temperatureHasBeenReported' = w.temperatureHasBeenReported
    /\ lastOp' = op
    /\ lastArg' = arg
    /\ lastRet' = ret
    /\ trace' = w.trace
    /\ daRet' = w.daRet
    /\ rmRet' = w.rmRet
    /\ co2Run' = IF op = "getCO2" /\ w.rmRet # "ok"
                 THEN (IF co2Run >= 3 THEN 1 ELSE co2Run + 1)
                 ELSE 0
    /\ co2RunTx' = IF op = "getCO2" /\ w.rmRet # "ok"
                   THEN (IF co2Run >= 3 THEN 0 ELSE co2RunTx) + Commands(w.trace)
                   ELSE 0
    /\ single' = IF op = "StartSingleMeasurement" /\ ret = TRUE
                 THEN [fresh |-> Accessors, sample |-> LastSample(w.trace)]
                 ELSE IF op \in single.fresh
                 THEN [single EXCEPT !.fresh = @ \ {op}]
                 ELSE NoSingle
    /\ sampled' = IF op \in Accessors /\ w.rmRet = "ok"
                  THEN [fresh |-> Accessors \ {op},
                        sample |-> LastSample(w.trace)]
                  ELSE IF op \in sampled.fresh
                  THEN [sampled EXCEPT !.fresh = @ \ {op}]
                  ELSE NoSingle
    /\ device' = dev
    /\ prog' = prg

Return(op, arg, w, ret) == ReturnWith(op, arg, w, ret, device, prog)

\* ---------------------------------------------------------------- actions
\* inputs of a call that reads: a bus script against a ready device holding
\* SampleA, or a fault-free bus against a ready device with any measurement
\* answer, or against any data-ready answer
Scenarios ==
    {[bus |-> b, rdy |-> MkReady(0, 1), meas |-> SampleA] : b \in BusScripts}
    \cup
    {[bus |-> <<>>, rdy |-> MkReady(0, 1), meas |-> m] : m \in MeasResponses}
    \cup
    {[bus |-> <<>>, rdy |-> r, meas |-> SampleA] : r \in ReadyResponses}

\* inputs of dataAvailable, which reads no measurement
ReadyScenarios == {sc \in Scenarios : sc.meas = SampleA}

DataAvailableOn(S) ==
    \E sc \in S :
        \E r \in {dataAvailable(World(sc.bus, sc.rdy, sc.meas))} :
            Return("dataAvailable", <<>>, r.w, r.ret)

DataAvailable == DataAvailableOn(ReadyScenarios)

ReadMeasurementOn(S) ==
    \E sc \in S :
        \E r \in {readMeasurement(World(sc.bus, sc.rdy, sc.meas))} :
            Return("readMeasurement", <<>>, r.w, r.ret)

ReadMeasurement == ReadMeasurementOn(Scenarios)

GetCO2On(S) ==
    \E sc \in S :
        \E r \in {getCO2(World(sc.bus, sc.rdy, sc.meas))} :
            \E ret \in r.ret : Return("getCO2", <<>>, r.w, ret)

GetCO2 == GetCO2On(Scenarios)

GetHumidityOn(S) ==
    \E sc \in S :
        \E r \in {getHumidity(World(sc.bus, sc.rdy, sc.meas))} :
            \E ret \in r.ret : Return("getHumidity", <<>>, r.w, ret)

GetHumidity == GetHumidityOn(Scenarios)

GetTemperatureOn(S) ==
    \E sc \in S :
        \E r \in {getTemperature(World(sc.bus, sc.rdy, sc.meas))} :
            \E ret \in r.ret : Return("getTemperature", <<>>, r.w, ret)

GetTemperature == GetTemperatureOn(Scenarios)

\* inputs of begin: the I2C set-up fails, or it succeeds and a bus script runs
BeginInputs ==
    {[twiOk |-> FALSE, bus |-> <<>>]} \cup
    {[twiOk |-> TRUE, bus |-> b] : b \in BusScripts}

BeginOn(I, B) ==
    \E a \in BOOLEAN, itv \in I, inp \in B :
        \E r \in {begin(World(inp.bus, MkReady(0, 0), SampleA), a, itv, inp.twiOk)} :
            Return("begin", <<a, itv, inp.twiOk>>, r.w, r.ret)

Begin == BeginOn(Intervals, BeginInputs)

\* transport results of the transfer specification: every sequence of
\* XferLen results
Results == {I2C_OK} \cup FailKinds

XferScripts == [1..XferLen -> Results]

\* the transfer specification applies sendCommand and readbytes to the
\* script drawn by InitXfer and kept in lastArg
SendCommandCall ==
    \E cmd \in {COMMAND_GET_DATA_READY, CMD_STOP_MEAS} :
        \E r \in {sendCommand(World(lastArg, MkReady(0, 0), SampleA), cmd, 0, 2)} :
            Return("sendCommand", lastArg, r.w, r.ret)

ReadBytesCall ==
    \E len \in {3, 18} :
        \E r \in {readbytes(World(lastArg, MkReady(0, 1), SampleA), len)} :
            Return("readbytes", lastArg, r.w, r.ret)

\* the measurement cache and its accessors
Next == DataAvailable \/ ReadMeasurement \/ GetCO2 \/ GetHumidity \/ GetTemperature

Spec == Init /\ [][Next]_vars

\* the begin sequence
NextBegin == Begin

SpecBegin == Init /\ [][NextBegin]_vars

\* the transaction executor alone
InitXfer ==
    /\ co2 = Zero32
    /\ temperature = Zero32
    /\ humidity = Zero32
    /\ asc = TRUE
    /\ interval = 2
    /\ co2HasBeenReported = TRUE
    /\ humidityHasBeenReported = TRUE
    /\ temperatureHasBeenReported = TRUE
    /\ lastOp = "none"
    /\ lastArg \in XferScripts
    /\ lastRet = FALSE
    /\ trace = <<>>
    /\ daRet = "none"
    /\ rmRet = "none"
    /\ co2Run = 0
    /\ co2RunTx = 0
    /\ single = NoSingle
    /\ sampled = NoSingle
    /\ device = NoDevice
    /\ prog = NoProg

NextXfer == SendCommandCall \/ ReadBytesCall

SpecXfer == InitXfer /\ [][NextXfer]_vars

\* the pseudo single measurement and the accessors that follow it
\* k attempts succeed, then one attempt fails, or as many as make a
\* transaction fail and more
SingleScripts ==
    {Rep(I2C_OK, k) \o Rep(KindOf(k, n), n) :
        k \in 0..MaxOkSingle, n \in {1, MaxFails}}

\* inputs of StartSingleMeasurement: a fault-free bus against a device whose
\* sample gets ready after n polls, a bus script against a ready device, a
\* fault-free bus against any measurement answer, or against any data-ready
\* answer
SingleScenarios ==
    {[bus |-> <<>>, rdy |-> MkReady(0, 1), meas |-> SampleA, notReady |-> n] :
        n \in 0..MaxNotReady}
    \cup
    {[bus |-> b, rdy |-> MkReady(0, 1), meas |-> SampleA, notReady |-> 0] :
        b \in SingleScripts}
    \cup
    {[bus |-> <<>>, rdy |-> MkReady(0, 1), meas |-> m, notReady |-> 1] :
        m \in MeasResponses}
    \cup
    {[bus |-> <<>>, rdy |-> r, meas |-> SampleA, notReady |-> 0] :
        r \in ReadyResponses}

StartSingleMeasurementOn(S) ==
    \E sc \in S :
        \E r \in {StartSingleMeasurement(
                     [World(sc.bus, sc.rdy, sc.meas)
                        EXCEPT !.notReady = sc.notReady])} :
            Return("StartSingleMeasurement", <<>>, r.w, r.ret)

\* a bus on which the next transaction fails
FailingBus == Rep("I2C_SDA_NACK", RetryInit + 1)

ConfigBuses == {<<>>, FailingBus}

\* inputs of the accessors called after a single measurement: a ready device
\* holding another sample, a device that is not ready, a bus that fails
AfterSingle ==
    {[bus |-> <<>>, rdy |-> MkReady(0, 1), meas |-> SampleB, notReady |-> 0],
     [bus |-> <<>>, rdy |-> MkReady(0, 0), meas |-> SampleB, notReady |-> 0],
     [bus |-> FailingBus, rdy |-> MkReady(0, 1), meas |-> SampleB,
      notReady |-> 0]}

\* intervals given to setMeasurementInterval before a single measurement
SingleIntervals == {1, 5}

SetMeasurementIntervalOn(I, B) ==
    \E itv \in I, b \in B :
        \E r \in {setMeasurementInterval(World(b, MkReady(0, 0), SampleA), itv)} :
            Return("setMeasurementInterval", <<itv>>, r.w, r.ret)

NextSingle ==
    \/ StartSingleMeasurementOn(SingleScenarios)
    \/ GetCO2On(AfterSingle)
    \/ GetHumidityOn(AfterSingle)
    \/ GetTemperatureOn(AfterSingle)
    \/ SetMeasurementIntervalOn(SingleIntervals, ConfigBuses)

SpecSingle == Init /\ [][NextSingle]_vars

\* every operation of the driver that uses the bus, each on a fault-free bus
\* and on a failing one
DriverSingle ==
    AfterSingle \cup
    {[bus |-> <<>>, rdy |-> MkReady(0, 1), meas |-> SampleA, notReady |-> 2]}

SetAutoSelfCalibrationOn(B) ==
    \E enable \in BOOLEAN, b \in B :
        \E r \in {setAutoSelfCalibration(World(b, MkReady(0, 0), SampleA),
                                         enable)} :
            Return("setAutoSelfCalibration", <<enable>>, r.w, r.ret)

SetForceRecalibrationOn(V, B) ==
    \E val \in V, b \in B :
        \E r \in {setForceRecalibration(World(b, MkReady(0, 0), SampleA), val)} :
            Return("setForceRecalibration", <<val>>, r.w, r.ret)

SetTemperatureOffsetOn(Q, B) ==
    \E quarters \in Q, b \in B :
        \E tickOffset \in TickOffsets(quarters) :
            \E r \in {setTemperatureOffset(World(b, MkReady(0, 0), SampleA),
                                           quarters, tickOffset)} :
                Return("setTemperatureOffset", <<quarters>>, r.w, r.ret)

SetAltitudeCompensationOn(A, B) ==
    \E altitude \in A, b \in B :
        \E r \in {setAltitudeCompensation(World(b, MkReady(0, 0), SampleA),
                                          altitude)} :
            Return("setAltitudeCompensation", <<altitude>>, r.w, r.ret)

SetAmbientPressureOn(P, B) ==
    \E pressure_mbar \in P, b \in B :
        \E r \in {setAmbientPressure(World(b, MkReady(0, 0), SampleA),
                                     pressure_mbar)} :
            Return("setAmbientPressure", <<pressure_mbar>>, r.w, r.ret)

BeginMeasuringOn(P, B) ==
    \E pressureOffset \in P, b \in B :
        \E r \in {beginMeasuring(World(b, MkReady(0, 0), SampleA),
                                 pressureOffset)} :
            Return("beginMeasuring", <<pressureOffset>>, r.w, r.ret)

StopMeasurementOn(B) ==
    \E b \in B :
        \E r \in {StopMeasurement(World(b, MkReady(0, 0), SampleA))} :
            Return("StopMeasurement", <<>>, r.w, r.ret)

\* lastArg is the bus script of the call
SoftResetOn(B) ==
    \E b \in B :
        \E r \in {SoftReset(World(b, MkReady(0, 0), SampleA))} :
            Return("SoftReset", <<b>>, r.w, r.ret)

\* serial number answers: a good one, and one with a checksum damaged
SerialResponses == {SerialA, Corrupt(SerialA, 6)}

\* lastArg is the caller's buffer as the call left it
GetSerialNumberOn(S, B) ==
    \E ser \in S, b \in B :
        \E r \in {getSerialNumber([World(b, MkReady(0, 0), SampleA)
                                     EXCEPT !.serial = ser])} :
            Return("getSerialNumber", <<r.val>>, r.w, r.ret)

DriverBegin ==
    {[twiOk |-> FALSE, bus |-> <<>>]} \cup
    {[twiOk |-> TRUE, bus |-> b] : b \in ConfigBuses}

NextDriver ==
    \/ BeginOn({0, 5}, DriverBegin)
    \/ DataAvailableOn(AfterSingle)
    \/ ReadMeasurementOn(AfterSingle)
    \/ GetCO2On(AfterSingle)
    \/ GetHumidityOn(AfterSingle)
    \/ GetTemperatureOn(AfterSingle)
    \/ StartSingleMeasurementOn(DriverSingle)
    \/ SetMeasurementIntervalOn(SingleIntervals, ConfigBuses)
    \/ SetAutoSelfCalibrationOn(ConfigBuses)
    \/ SetForceRecalibrationOn({399, 400}, ConfigBuses)
    \/ SetTemperatureOffsetOn({-1, 10}, ConfigBuses)
    \/ SetAltitudeCompensationOn({3040, 3041}, ConfigBuses)
    \/ SetAmbientPressureOn({0, 1000}, ConfigBuses)
    \/ BeginMeasuringOn({0, 1000}, ConfigBuses)
    \/ StopMeasurementOn(ConfigBuses)
    \/ SoftResetOn(ConfigBuses)
    \/ GetSerialNumberOn(SerialResponses, ConfigBuses)

SpecDriver == Init /\ [][NextDriver]_vars

\* the configuration: begin, the setters, the reset, and the main program
\* that reads a command line and configures a new driver with it
\* the driver of a program that has just started
NewDriver(bus) ==
    [World(bus, MkReady(0, 0), SampleA)
        EXCEPT !.co2 = Zero32, !.temperature = Zero32, !.humidity = Zero32,
               !.asc = TRUE, !.interval = 2,
               !.co2HasBeenReported = TRUE,
               !.humidityHasBeenReported = TRUE,
               !.temperatureHasBeenReported = TRUE]

\* options of the command line, in and out of their ranges
Options ==
    {[opt |-> "a", option |-> 0], [opt |-> "n", option |-> 0],
     [opt |-> "k", option |-> 0]}
    \cup {[opt |-> "m", option |-> v] : v \in {-100, -1, 1000}}
    \cup {[opt |-> "p", option |-> v] : v \in {0, 699, 900}}
    \cup {[opt |-> "i", option |-> v] : v \in {1, 5}}
    \cup {[opt |-> "o", option |-> v] : v \in {25, 26}}
    \cup {[opt |-> "f", option |-> v] : v \in {399, 500}}

\* command lines: no option, one option, or two of the options that
\* parse_cmdline makes depend on one another
CommandLines ==
    {<<>>} \cup {<<o>> : o \in Options}
    \cup {<<o1, o2>> : o1, o2 \in
             {o \in Options : \/ o.opt \in {"a", "m"}
                              \/ o.option \in {500, 900}}}

\* main up to main_loop. lastArg is the command line and the parameters
\* read from it, lastRet how far the program got: "EXIT_FAILURE" from
\* parse_cmdline, "exit" or "closeout" from init_hw, "main_loop".
Main(A, B) ==
    \E argv \in A, inp \in B :
        \E p \in {getoptLoop(argv, 1, init_variables)} :
            IF p.exit
            THEN Return("main", <<argv, p.scd>>, NewDriver(inp.bus),
                        "EXIT_FAILURE")
            ELSE \E tickOffset \in TickOffsets(p.scd.temp_offset * 4) :
                   \E r \in {init_hw(NewDriver(inp.bus), p.scd, tickOffset,
                                     inp.twiOk)} :
                       Return("main", <<argv, p.scd>>, r.w,
                              IF r.ret = "done" THEN "main_loop" ELSE r.ret)

\* bus scripts of SoftReset: k attempts succeed, then n fail
ResetBuses ==
    {Rep(I2C_OK, k) \o Rep("I2C_SDA_NACK", n) :
        k \in 0..MaxOkBefore, n \in {0, 1, RetryInit + 1}}

\* uint16_t altitudes: 64016 is -1520 and 65436 is -100 passed by an int
NextConfig ==
    \/ BeginOn({0, 1, 2, 1800, 1801}, DriverBegin)
    \/ SetMeasurementIntervalOn({0, 1, 2, 5, 1800, 1801, 65535}, ConfigBuses)
    \/ SetAutoSelfCalibrationOn(ConfigBuses)
    \/ SetForceRecalibrationOn({399, 400, 500, 2000, 2001}, ConfigBuses)
    \/ SetTemperatureOffsetOn({-1600, -1, 0, 100, 101, 1600}, ConfigBuses)
    \/ SetAltitudeCompensationOn(
           {0, 1000, 3040, 3041, 64015, 64016, 65436}, ConfigBuses)
    \/ SetAmbientPressureOn({0, 699, 700, 900, 1200, 1201}, ConfigBuses)
    \/ SoftResetOn(ResetBuses)
    \/ Main(CommandLines, DriverBegin)

SpecConfig == Init /\ [][NextConfig]_vars

\* the serial number alone
\* "SCD30z"
SerialB == MkSerial(<<83, 67, 68, 51, 48, 122>>)

\* serial number answers: two good ones, and each with one byte changed in
\* one, two or all of its bits
SerialAnswers ==
    {SerialA, SerialB} \cup
    {[ser EXCEPT ![pos] = Xor8(@, m)] :
        ser \in {SerialA, SerialB}, pos \in 1..9, m \in {1, 2, 4, 16, 129, 255}}

NextSerial ==
    \/ GetSerialNumberOn(SerialAnswers, {<<>>})
    \/ GetSerialNumberOn({SerialA}, BusScripts)

SpecSerial == Init /\ [][NextSerial]_vars

\* the debug level: every call is made at each level setDebug can set
\* the call op(arg) of the driver in the world w
Call(op, arg, w) ==
    CASE op = "begin" -> begin(w, arg[1], arg[2], arg[3])
      [] op = "dataAvailable" -> dataAvailable(w)
      [] op = "readMeasurement" -> readMeasurement(w)
      [] op = "setMeasurementInterval" -> setMeasurementInterval(w, arg[1])
      [] op = "setForceRecalibration" -> setForceRecalibration(w, arg[1])
      [] op = "setTemperatureOffset" ->
           setTemperatureOffset(w, arg[1], arg[1] * 25)
      [] op = "setAmbientPressure" -> setAmbientPressure(w, arg[1])
      [] op = "StartSingleMeasurement" -> StartSingleMeasurement(w)
      [] op = "SoftReset" -> SoftReset(w)
      [] op = "getSerialNumber" ->
           Bind(getSerialNumber(w), LAMBDA r :
               [w |-> r.w, ret |-> <<r.ret, r.val>>])

\* what a caller and the bus see of a call that ended as r
Visible(r) ==
    [ret |-> r.ret, trace |-> r.w.trace,
     co2 |-> r.w.co2, temperature |-> r.w.temperature,
     humidity |-> r.w.humidity, asc |-> r.w.asc, interval |-> r.w.interval,
     flags |-> <<r.w.co2HasBeenReported, r.w.humidityHasBeenReported,
                 r.w.temperatureHasBeenReported>>]

\* what a call that reads meets: attempts that fail, a device that is not
\* ready, answers with a bad checksum
DebugScenarios ==
    {[bus |-> b, rdy |-> MkReady(0, 1), meas |-> SampleA] :
        b \in {<<>>, <<"I2C_SDA_NACK">>, <<I2C_OK, "I2C_SCL_CLKSTR">>,
                FailingBus}}
    \cup
    {[bus |-> <<>>, rdy |-> MkReady(0, 1), meas |-> m] :
        m \in {SampleB, Corrupt(SampleB, 12)}}
    \cup
    {[bus |-> <<>>, rdy |-> r, meas |-> SampleA] :
        r \in {MkReady(0, 0), Corrupt(MkReady(0, 1), 3)}}

\* calls and what they meet: a bus script, the device's answers
DebugCalls ==
    {[op |-> o, arg |-> <<>>, bus |-> sc.bus, rdy |-> sc.rdy,
      meas |-> sc.meas, notReady |-> 0, serial |-> SerialA] :
        o \in {"dataAvailable", "readMeasurement"}, sc \in DebugScenarios}
    \cup
    {[op |-> "begin", arg |-> <<a, itv, ok>>, bus |-> b, rdy |-> MkReady(0, 0),
      meas |-> SampleA, notReady |-> 0, serial |-> SerialA] :
        a \in BOOLEAN, itv \in {0, 5}, ok \in BOOLEAN, b \in ConfigBuses}
    \cup
    {[op |-> c[1], arg |-> <<c[2]>>, bus |-> b, rdy |-> MkReady(0, 0),
      meas |-> SampleA, notReady |-> 0, serial |-> SerialA] :
        c \in {<<"setMeasurementInterval", 1>>, <<"setMeasurementInterval", 5>>,
               <<"setForceRecalibration", 500>>, <<"setTemperatureOffset", 10>>,
               <<"setAmbientPressure", 900>>},
        b \in ConfigBuses}
    \cup
    {[op |-> "StartSingleMeasurement", arg |-> <<>>, bus |-> sc.bus,
      rdy |-> sc.rdy, meas |-> sc.meas, notReady |-> sc.notReady,
      serial |-> SerialA] : sc \in DriverSingle}
    \cup
    {[op |-> o, arg |-> <<>>, bus |-> b, rdy |-> MkReady(0, 0),
      meas |-> SampleA, notReady |-> 0, serial |-> ser] :
        o \in {"SoftReset", "getSerialNumber"}, b \in ConfigBuses,
        ser \in SerialResponses}

\* One call made at SCD_DEBUG 0, 1 and 2 from the same state against the
\* same bus and device; the program goes on from the run at one of the
\* levels. lastArg holds the arguments, that level, and for the three levels
\* what was visible of the run and what it printed.
DebugRuns(C) ==
    \E c \in C :
        \E runs \in {<<Call(c.op, c.arg,
                           [World(c.bus, c.rdy, c.meas)
                               EXCEPT !.notReady = c.notReady,
                                      !.serial = c.serial,
                                      !.SCD_DEBUG = 0]),
                      Call(c.op, c.arg,
                           [World(c.bus, c.rdy, c.meas)
                               EXCEPT !.notReady = c.notReady,
                                      !.serial = c.serial,
                                      !.SCD_DEBUG = 1]),
                      Call(c.op, c.arg,
                           [World(c.bus, c.rdy, c.meas)
                               EXCEPT !.notReady = c.notReady,
                                      !.serial = c.serial,
                                      !.SCD_DEBUG = 2])>>} :
            \E val \in 0..2 :
                Return(c.op,
                       <<c.arg, val,
                         <<Visible(runs[1]), Visible(runs[2]),
                           Visible(runs[3])>>,
                         <<runs[1].w.diag, runs[2].w.diag, runs[3].w.diag>>>>,
                       runs[val + 1].w, runs[val + 1].ret)

NextDebug == DebugRuns(DebugCalls)

SpecDebug == Init /\ [][NextDebug]_vars

\* the heat index alone: Fahrenheit and Celsius temperatures, humidities
\* that reach both branches and both adjustments
HeatInputs ==
    {<<t, h, TRUE>> : t \in {60, 70, 75, 77, 80, 85, 87, 90, 95, 100, 112},
                      h \in {0, 12, 13, 40, 80, 85, 86, 100}}
    \cup
    {<<t, h, FALSE>> : t \in {15, 20, 25, 30, 35, 40},
                       h \in {0, 12, 13, 40, 80, 85, 86, 100}}

ComputeHeatIndexCall ==
    \E inp \in HeatInputs :
        \E r \in {computeHeatIndex(inp[1], inp[2], inp[3])} :
            Return("computeHeatIndex", inp, World(<<>>, MkReady(0, 0), SampleA),
                   r)

NextHeat == ComputeHeatIndexCall

SpecHeat == Init /\ [][NextHeat]_vars

\* the checksum routines alone: computeCRC8 and checkCrc applied to the byte
\* sequence drawn by InitCrc and kept in lastArg[1]
CrcByteValues == {0, 1, 128, 190, 239, 255}

CrcInputs == UNION {[1..n -> CrcByteValues] : n \in 0..MaxCrcLen}

\* d with bit k % 8 of its byte k \div 8 inverted
FlipBit(d, k) == [d EXCEPT ![(k \div 8) + 1] = Xor8(@, 2 ^ (k % 8))]

\* what checkCrc is given for the sequence d: d with its checksum, with the
\* checksum damaged or with another byte, and d with one bit inverted with
\* the checksum of d
CheckInputs(d) ==
    LET crc == computeCRC8(d, Len(d))
    IN  {[data |-> d, crc_rec |-> c] :
            c \in {crc, Xor8(crc, 1), Xor8(crc, 128)} \cup CrcByteValues}
        \cup
        {[data |-> FlipBit(d, k), crc_rec |-> crc] : k \in 0..((8 * Len(d)) - 1)}

ComputeCRC8Call ==
    \E r \in {computeCRC8(lastArg[1], Len(lastArg[1]))} :
        Return("computeCRC8", <<lastArg[1]>>,
               World(<<>>, MkReady(0, 0), SampleA), r)

CheckCrcCall ==
    \E inp \in CheckInputs(lastArg[1]) :
        \E r \in {checkCrc(inp.data, Len(inp.data), inp.crc_rec)} :
            Return("checkCrc", <<lastArg[1], inp.data, inp.crc_rec>>,
                   World(<<>>, MkReady(0, 0), SampleA), r)

InitCrc ==
    /\ co2 = Zero32
    /\ temperature = Zero32
    /\ humidity = Zero32
    /\ asc = TRUE
    /\ interval = 2
    /\ co2HasBeenReported = TRUE
    /\ humidityHasBeenReported = TRUE
    /\ temperatureHasBeenReported = TRUE
    /\ lastOp = "none"
    /\ lastArg \in {<<d>> : d \in CrcInputs}
    /\ lastRet = FALSE
    /\ trace = <<>>
    /\ daRet = "none"
    /\ rmRet = "none"
    /\ co2Run = 0
    /\ co2RunTx = 0
    /\ single = NoSingle
    /\ sampled = NoSingle
    /\ device = NoDevice
    /\ prog = NoProg

NextCrc == ComputeCRC8Call \/ CheckCrcCall

SpecCrc == InitCrc /\ [][NextCrc]_vars

\* ------------------------------------------------- the measurement loop
\* what one pass of the loop meets: a ready device, one that is not ready, a
\* poll that fails on the bus, and a poll and a reset that both fail
LoopScenarios ==
    {[bus |-> <<>>, rdy |-> MkReady(0, 1), meas |-> SampleA],
     [bus |-> <<>>, rdy |-> MkReady(0, 1), meas |-> SampleB],
     [bus |-> <<>>, rdy |-> MkReady(0, 0), meas |-> SampleA],
     [bus |-> FailingBus, rdy |-> MkReady(0, 1), meas |-> SampleA],
     [bus |-> FailingBus \o FailingBus, rdy |-> MkReady(0, 1),
      meas |-> SampleA]}

\* the program from its start to main_loop
Startup ==
    /\ lastOp = "none"
    /\ Main({<<>>, <<[opt |-> "i", option |-> 5]>>}, DriverBegin)

\* main_loop is entered after init_hw. lastArg is what was asked for.
MainLoopEntry ==
    /\ lastOp = "main"
    /\ lastRet = "main_loop"
    /\ \E perform_single \in BOOLEAN, loop_count \in {0, 10},
          sc \in DriverSingle :
          \E r \in {loopEntry([World(sc.bus, sc.rdy, sc.meas)
                                 EXCEPT !.notReady = sc.notReady],
                              perform_single, loop_count)} :
              ReturnWith("main_loop", <<perform_single, loop_count>>,
                         r.w, r.ret, device, r.loc)

\* one iteration. lastArg is the result of its poll.
MainLoopIteration ==
    /\ prog.pc = "loop"
    /\ prog.loop_set > 0
    /\ \E sc \in LoopScenarios :
          \E r \in {loopBody(World(sc.bus, sc.rdy, sc.meas), prog)} :
              ReturnWith("iteration", <<r.poll>>, r.w, r.ret, device, r.loc)

NextLoop == Startup \/ MainLoopEntry \/ MainLoopIteration

SpecLoop == Init /\ [][NextLoop]_vars

\* ------------------------------------------- signals during a transaction
\* everything but the process
driverVars == <<co2, temperature, humidity, asc, interval,
                co2HasBeenReported, humidityHasBeenReported,
                temperatureHasBeenReported,
                lastOp, lastArg, lastRet, trace, daRet, rmRet, co2Run,
                co2RunTx, single, sampled, device>>

\* bus scripts of one transaction: no failure, or failures of one kind
SignalScripts ==
    {<<>>} \cup {Rep(kind, n) : kind \in FailKinds, n \in 1..MaxFails}

\* main installs signal_handler before anything else. during is the
\* position of the main flow when the handler ran.
SetSignals ==
    /\ prog.pc = "none"
    /\ prog' = [pc |-> "idle", during |-> "none"]
    /\ UNCHANGED driverVars

\* the main flow enters sendCommand or readbytes: int retry = 3, and the
\* while(1) loop is reached
TransactionStart ==
    /\ prog.pc = "idle"
    /\ \E op \in {"sendCommand", "readbytes"}, b \in SignalScripts :
          prog' = [pc |-> op, during |-> "none", script |-> b, bus |-> b,
                   retry |-> RetryInit, attempts |-> 1]
    /\ UNCHANGED driverVars

\* one pass of the while(1) loop that ends in "continue": the transfer
\* failed and retry-- > 0
TransactionRetry ==
    /\ prog.pc \in {"sendCommand", "readbytes"}
    /\ BusResult(prog.bus) # I2C_OK
    /\ prog.retry > 0
    /\ prog' = [prog EXCEPT !.bus = BusNext(@), !.retry = @ - 1,
                            !.attempts = @ + 1]
    /\ UNCHANGED driverVars

\* the pass of the loop that returns: the transaction is complete, with the
\* result the whole routine gives on the script
TransactionEnd ==
    /\ prog.pc \in {"sendCommand", "readbytes"}
    /\ BusResult(prog.bus) = I2C_OK \/ prog.retry = 0
    /\ \E r \in {IF prog.pc = "sendCommand"
                 THEN sendCommand(World(prog.script, MkReady(0, 1), SampleA),
                                  COMMAND_GET_DATA_READY, 0, 2)
                 ELSE readbytes(World(prog.script, MkReady(0, 1), SampleA),
                                3)} :
          ReturnWith(prog.pc, <<prog.script, prog.attempts>>, r.w, r.ret,
                     device, [pc |-> "idle", during |-> "none"])

\* a signal arrives: signal_handler runs where the main flow stands, and
\* closeout closes the transport and ends the process
Signal ==
    /\ prog.pc \notin {"none", "exit"}
    /\ prog' = [prog EXCEPT !.pc = "exit", !.during = prog.pc]
    /\ UNCHANGED driverVars

NextSignal ==
    SetSignals \/ TransactionStart \/ TransactionRetry \/ TransactionEnd
    \/ Signal

SpecSignal == Init /\ [][NextSignal]_vars

\* -------------------------------------------------- the Dylos child
\* char buf[20], sbuf[20], and read(fd, buf, 20)
SBUF_SIZE == 20

CHUNK_MAX == 20

\* the longest text followed in memory
MaxStored == 42

\* A text is its length as strlen finds it and its last byte: "nl" for 0x0a.
\* The serial port delivers text: no chunk holds a zero byte.
Chunks == {[n |-> n, last |-> l] : n \in 1..CHUNK_MAX, l \in {"nl", "other"}}

NoChunk == [n |-> 0, last |-> "none"]

\* sbuf[strlen(sbuf) - 1] != 0x0a. With no text stored the byte tested lies
\* before the buffer: either answer.
Incomplete(sbuf) == IF sbuf.len = 0 THEN BOOLEAN ELSE {sbuf.last # "nl"}

\* buf read as a string: a chunk that fills buf leaves no terminator in it,
\* and past bytes of what follows buf are read with it
AsString(chunk, past) ==
    IF chunk.n = CHUNK_MAX /\ past > 0
    THEN [n |-> chunk.n + past, last |-> "other"]
    ELSE chunk

\* what constant_read stores when a chunk has arrived: sprintf appends the
\* string in buf to the text, strncpy copies 20 bytes of buf and writes no
\* terminator after 20 bytes of text.  appended tells which it was.
store(sbuf, chunk, incomplete, past) ==
    IF chunk.n = 0 THEN [sbuf EXCEPT !.appended = FALSE]
    ELSE IF incomplete
    THEN [len |-> sbuf.len + AsString(chunk, past).n,
          last |-> AsString(chunk, past).last, appended |-> TRUE]
    ELSE [len |-> chunk.n, last |-> chunk.last, appended |-> FALSE]

\* the answer to the parent's request for the buffer
reply(sbuf, cmd, incomplete) ==
    IF cmd # "b" THEN "none"
    ELSE IF incomplete THEN "empty" ELSE "line"

\* open_dylos forks the child, which enters constant_read with sbuf = {0}
OpenDylos ==
    /\ prog.pc = "none"
    /\ prog' = [pc |-> "child",
                sbuf |-> [len |-> 0, last |-> "none", appended |-> FALSE]]
    /\ UNCHANGED driverVars

\* one pass of the while(1) loop of constant_read: a command of the parent,
\* if there is one, then a chunk of the serial port, if there is one.
\* lastArg is the command and the chunk, lastRet the answer to the parent.
ConstantRead ==
    /\ prog.pc = "child"
    /\ \E cmd \in {"none", "b", "s"}, chunk \in Chunks \cup {NoChunk},
          past \in {0, 1} :
          \E inc1 \in Incomplete(prog.sbuf), inc2 \in Incomplete(prog.sbuf) :
              \E st \in {store(prog.sbuf, chunk, inc2, past)} :
                  /\ st.len <= MaxStored
                  /\ IF cmd = "s"
                     THEN ReturnWith("constant_read", <<cmd, NoChunk>>,
                                     World(<<>>, MkReady(0, 0), SampleA),
                                     "exit", device,
                                     [prog EXCEPT !.pc = "exit"])
                     ELSE ReturnWith("constant_read", <<cmd, chunk>>,
                                     World(<<>>, MkReady(0, 0), SampleA),
                                     reply(prog.sbuf, cmd, inc1), device,
                                     [prog EXCEPT !.sbuf = st])

NextDylos == OpenDylos \/ ConstantRead

SpecDylos == Init /\ [][NextDylos]_vars

\* ------------------------------------------- polling a device that answers
\* the longest wait for a sample, in polls
MaxWait == 8

\* Whether the device measures after the commands of a call have reached it:
\* the last start or stop command written with success decides.
Measuring(dev, log) ==
    LET modes == {i \in 1..Len(log) :
                     /\ log[i].op = "write"
                     /\ log[i].result = I2C_OK
                     /\ (log[i].bytes[1] * 256) + log[i].bytes[2] \in
                            {COMMAND_CONTINUOUS_MEASUREMENT, CMD_STOP_MEAS}}
        last == CHOOSE i \in modes : \A j \in modes : j <= i
    IN  IF modes = {} THEN dev.measuring
        ELSE (log[last].bytes[1] * 256) + log[last].bytes[2] =
                 COMMAND_CONTINUOUS_MEASUREMENT

\* the program starts the driver once. A device that measures has its
\* sample ready after some polls, at most MaxWait.
LiveBegin ==
    /\ lastOp = "none"
    /\ \E a \in BOOLEAN, itv \in {0, 2, 5, 1800}, inp \in DriverBegin :
          \E r \in {begin(World(inp.bus, MkReady(0, 0), SampleA), a, itv,
                          inp.twiOk)} :
              \E n \in 0..MaxWait :
                  ReturnWith("begin", <<a, itv, inp.twiOk>>, r.w, r.ret,
                             [measuring |-> Measuring(device, r.w.trace),
                              notReady |-> n],
                             prog)

\* one poll of a device that answers every transaction: ready when it
\* measures and its sample has come
LivePoll ==
    /\ lastOp # "none"
    /\ \E r \in {dataAvailable(
                    [World(<<>>,
                           MkReady(0, IF device.measuring THEN 1 ELSE 0),
                           SampleA)
                       EXCEPT !.notReady = device.notReady])} :
          ReturnWith("dataAvailable", <<>>, r.w, r.ret,
                     [device EXCEPT !.notReady = r.w.notReady], prog)

NextLive == LiveBegin \/ LivePoll

\* the caller polls again and again
SpecLive == Init /\ [][NextLive]_vars /\ WF_vars(LivePoll)

\* ================================================================ claims
Opcode(e) == (e.bytes[1] * 256) + e.bytes[2]

\* the opcodes of the commands written during the last call, in order
SentCommands == [i \in 1..Len(trace) |-> Opcode(trace[i])]

IsWrite(e, command) == e.op = "write" /\ Opcode(e) = command

BeginSequence ==
    <<COMMAND_CONTINUOUS_MEASUREMENT, COMMAND_SET_MEASUREMENT_INTERVAL,
      COMMAND_AUTOMATIC_SELF_CALIBRATION>>

\* s lists elements of t in the order of t, without repetition
InOrderOf(s, t) ==
    \E f \in [1..Len(s) -> 1..Len(t)] :
        /\ \A i \in 1..Len(s) : s[i] = t[f[i]]
        /\ \A i, j \in 1..Len(s) : i < j => f[i] < f[j]

NoStepFailed ==
    /\ lastArg[2] >= 2
    /\ lastArg[2] <= 1800
    /\ \A i \in 1..Len(trace) : trace[i].result = I2C_OK

\* C1: once the I2C hardware is set up, begin with interval 0 sends the
\* stop-measurement command and nothing else; begin with interval > 0 starts
\* with start-continuous-measurement and
\* sends set-interval and set-auto-self-calibration after it in that order,
\* all three when no step fails, and never any other command.
C1_BeginOrder ==
    (lastOp = "begin" /\ lastArg[3]) =>
        /\ lastArg[2] = 0 => SentCommands = <<CMD_STOP_MEAS>>
        /\ lastArg[2] > 0 =>
              /\ Len(trace) >= 1
              /\ SentCommands[1] = COMMAND_CONTINUOUS_MEASUREMENT
              /\ InOrderOf(SentCommands, BeginSequence)
              /\ NoStepFailed => SentCommands = BeginSequence

C1_Witness ==
    /\ lastOp = "begin"
    /\ lastArg[2] = 5
    /\ lastRet = TRUE
    /\ SentCommands = BeginSequence
    /\ \E i \in 1..3 : trace[i].attempts > 1

\* C2: in begin with interval > 0 a step that fails ends the sequence: a
\* command whose transport failed is the last one sent, an interval that is
\* rejected lets no later command be sent, and begin returns false.
C2_AbortOnFailure ==
    (lastOp = "begin" /\ lastArg[3] /\ lastArg[2] > 0) =>
        /\ \A i \in 1..Len(trace) :
              trace[i].result # I2C_OK => (i = Len(trace) /\ lastRet = FALSE)
        /\ (lastArg[2] < 2 \/ lastArg[2] > 1800) =>
              (lastRet = FALSE /\
               \A i \in 1..Len(trace) :
                   ~IsWrite(trace[i], COMMAND_AUTOMATIC_SELF_CALIBRATION))

\* C3 as stated: three consecutive getCO2 calls without a successful
\* readMeasurement send at most one command.
C3_AtMostOneTransaction == co2Run = 3 => co2RunTx <= 1

\* C3 amended: of three consecutive getCO2 calls without a successful
\* readMeasurement only the first can be served from the cache; the second
\* and the third each trigger one readMeasurement attempt of one or two
\* transactions, so the three calls issue between two and six transactions.
C3_ReadPerReportedCall ==
    /\ co2Run >= 2 => (rmRet = "fail" /\ Commands(trace) \in {1, 2})
    /\ co2Run = 3 => (co2RunTx >= 2 /\ co2RunTx <= 6)

C3_Witness == co2Run = 3 /\ co2RunTx = 2 /\ daRet = "false"

\* the cached sample
Cache == [co2 |-> co2, temperature |-> temperature, humidity |-> humidity]

Flags ==
    <<co2HasBeenReported, humidityHasBeenReported, temperatureHasBeenReported>>

\* the three words an 18-byte answer carries, and its six checksums
FieldsOf(b) ==
    [co2 |-> <<b[1], b[2], b[4], b[5]>>,
     temperature |-> <<b[7], b[8], b[10], b[11]>>,
     humidity |-> <<b[13], b[14], b[16], b[17]>>]

SixChecksumsOk(b) ==
    \A g \in 0..5 :
        computeCRC8(<<b[(3 * g) + 1], b[(3 * g) + 2]>>, 2) = b[(3 * g) + 3]

\* the log holds an 18-byte answer with six good checksums whose fields are c
FromOneAnswer(log, c) ==
    \E i \in 1..Len(log) :
        /\ log[i].op = "read"
        /\ Len(log[i].bytes) = 18
        /\ SixChecksumsOk(log[i].bytes)
        /\ c = FieldsOf(log[i].bytes)

\* C4: a call leaves the three cached fields unchanged or replaces all three
\* by the fields of one 18-byte answer read in that call whose six checksums
\* verify; the cache always is the initial one or the fields of one answer.
C4_WholesaleUpdate ==
    /\ [](Cache = [co2 |-> Zero32, temperature |-> Zero32, humidity |-> Zero32]
          \/ \E m \in MeasResponses : SixChecksumsOk(m) /\ Cache = FieldsOf(m))
    /\ [][Cache' = Cache \/ FromOneAnswer(trace', Cache')]_vars

C4_Witness ==
    /\ lastOp = "readMeasurement"
    /\ lastRet = TRUE
    /\ Cache = FieldsOf(SampleB)

\* the flags after a call of op that started with flags f
OwnFlagSet(op, f) ==
    CASE op = "getCO2" -> [f EXCEPT ![1] = TRUE]
      [] op = "getHumidity" -> [f EXCEPT ![2] = TRUE]
      [] op = "getTemperature" -> [f EXCEPT ![3] = TRUE]
      [] OTHER -> f

\* C5: a flag goes from reported to fresh only in a step whose readMeasurement
\* succeeded; that step replaces the sample and marks all three flags fresh
\* (an accessor then marks its own reported), and a step whose readMeasurement
\* failed changes no flag but the calling accessor's own.
C5_FlagsWithSample ==
    [][ /\ (\E i \in 1..3 : Flags[i] /\ ~Flags'[i]) => rmRet' = "ok"
        /\ rmRet' = "ok" =>
              /\ FromOneAnswer(trace', Cache')
              /\ Flags' = OwnFlagSet(lastOp', <<FALSE, FALSE, FALSE>>)
        /\ rmRet' = "fail" =>
              /\ Cache' = Cache
              /\ Flags' = OwnFlagSet(lastOp', Flags)
        /\ lastOp' = "readMeasurement" => (lastRet' <=> rmRet' = "ok")
      ]_vars

C5_Witness ==
    /\ lastOp = "readMeasurement"
    /\ lastRet = TRUE
    /\ Flags = <<FALSE, FALSE, FALSE>>
    /\ Cache = FieldsOf(SampleA)

\* C6: a read-measurement command in the log follows a data-ready command
\* that was written and an answer to it that was read, verified and says
\* ready; a readMeasurement whose dataAvailable returned false fails without
\* a read-measurement command.
C6_ReadAfterReady ==
    /\ \A i \in 1..Len(trace) :
          IsWrite(trace[i], COMMAND_READ_MEASUREMENT) =>
              /\ i >= 3
              /\ IsWrite(trace[i - 2], COMMAND_GET_DATA_READY)
              /\ trace[i - 2].result = I2C_OK
              /\ trace[i - 1].op = "read"
              /\ trace[i - 1].result = I2C_OK
              /\ Len(trace[i - 1].bytes) = 3
              /\ checkCrc(trace[i - 1].bytes, 2, trace[i - 1].bytes[3])
              /\ trace[i - 1].bytes[2] = 1
    /\ (rmRet # "none" /\ daRet = "false") =>
          /\ rmRet = "fail"
          /\ \A i \in 1..Len(trace) :
                ~IsWrite(trace[i], COMMAND_READ_MEASUREMENT)
          /\ lastOp = "readMeasurement" => lastRet = FALSE

C6_Witness ==
    /\ lastOp = "readMeasurement"
    /\ Len(trace) = 4
    /\ IsWrite(trace[3], COMMAND_READ_MEASUREMENT)

\* C7: dataAvailable returns true exactly when the data-ready command was
\* written, three bytes were read, the checksum of the first two is the
\* third, and the second byte is 1.
C7_DataAvailableIff ==
    lastOp = "dataAvailable" =>
        (lastRet = TRUE <=>
            /\ Len(trace) = 2
            /\ IsWrite(trace[1], COMMAND_GET_DATA_READY)
            /\ trace[1].result = I2C_OK
            /\ trace[2].op = "read"
            /\ trace[2].result = I2C_OK
            /\ Len(trace[2].bytes) = 3
            /\ computeCRC8(SubSeq(trace[2].bytes, 1, 2), 2) = trace[2].bytes[3]
            /\ trace[2].bytes[2] = 1)

C7_Witness ==
    /\ lastOp = "dataAvailable"
    /\ lastRet = TRUE
    /\ trace[2].bytes[1] = 1

\* the value an accessor returns for the cached sample c
CachedValue(op, c) ==
    CASE op = "getCO2" -> CastU16(c.co2)
      [] op = "getHumidity" -> {c.humidity}
      [] OTHER -> {c.temperature}

C9_ZeroOnError ==
    (lastOp \in Accessors /\ rmRet = "fail") =>
        /\ lastOp = "getCO2" => lastRet = 0
        /\ lastOp # "getCO2" => lastRet = Zero32

\* C10: sendCommand and readbytes make at most RetryInit + 1 = 4 attempts;
\* they return true at the first attempt that succeeds and false after four
\* failed attempts.
C10_BoundedRetry ==
    lastOp \in {"sendCommand", "readbytes"} =>
        LET tries == {i \in 1..(RetryInit + 1) : i <= Len(lastArg)}
            good == {i \in tries : lastArg[i] = I2C_OK}
        IN  /\ Len(trace) = 1
            /\ trace[1].attempts <= 4
            /\ good # {} =>
                  /\ lastRet = TRUE
                  /\ \A i \in good : trace[1].attempts <= i
                  /\ trace[1].attempts \in good
            /\ good = {} =>
                  /\ lastRet = FALSE
                  /\ trace[1].attempts = 4

C10_Witness ==
    /\ lastOp = "readbytes"
    /\ lastRet = FALSE
    /\ trace[1].attempts = 4

\* C11 as stated: a NACK answer ends the sendCommand transaction at once: the
\* attempt that got it is the last one and the call returns false.
C11_NackTerminal ==
    lastOp = "sendCommand" =>
        \A i \in 1..trace[1].attempts :
            BusResult(SubSeq(lastArg, i, Len(lastArg))) = "I2C_SDA_NACK" =>
                (i = 1 /\ trace[1].attempts = 1 /\ lastRet = FALSE)

\* C11 amended: sendCommand retries a NACK as it retries every other
\* transport failure: a NACK at the first attempt is followed by a second
\* attempt, whose success makes the call succeed, and a transaction ends on
\* a NACK only when the NACK is the result of the fourth attempt.
C11_NackRetried ==
    lastOp = "sendCommand" =>
        /\ lastArg[1] = "I2C_SDA_NACK" =>
              /\ trace[1].attempts >= 2
              /\ lastArg[2] = I2C_OK => (lastRet = TRUE /\ trace[1].attempts = 2)
        /\ trace[1].result = "I2C_SDA_NACK" =>
              (trace[1].attempts = RetryInit + 1 /\ lastRet = FALSE)

C11_Witness ==
    /\ lastOp = "sendCommand"
    /\ lastArg[1] = "I2C_SDA_NACK"
    /\ lastArg[2] = I2C_OK
    /\ lastRet = TRUE
    /\ trace[1].attempts = 2

\* the scripts that fail at the attempts s fails at, with any kinds of failure
SamePattern(s) ==
    {t \in XferScripts : \A i \in 1..Len(s) : (t[i] = I2C_OK) <=> (s[i] = I2C_OK)}

\* the last call made again on the script t: its result and its attempts
Again(t) ==
    IF lastOp = "sendCommand"
    THEN Bind(sendCommand(World(t, MkReady(0, 0), SampleA),
                          Opcode(trace[1]), 0, 2),
              LAMBDA r : <<r.ret, r.w.trace[1].attempts>>)
    ELSE Bind(readbytes(World(t, MkReady(0, 1), SampleA), 3),
              LAMBDA r : <<r.ret, r.w.trace[1].attempts>>)

\* C12: sendCommand and readbytes run on two scripts that fail at the same
\* attempts with different kinds of failure make the same number of attempts
\* and return the same result, and a failure is returned as false whatever
\* its kind.
C12_KindBlind ==
    lastOp \in {"sendCommand", "readbytes"} =>
        /\ \A t \in SamePattern(lastArg) :
              Again(t) = <<lastRet, trace[1].attempts>>
        /\ trace[1].result # I2C_OK => lastRet = FALSE

C12_Witness ==
    /\ lastOp = "readbytes"
    /\ lastRet = FALSE
    /\ lastArg[1] = "I2C_SDA_NACK"
    /\ lastArg[2] = "I2C_SCL_CLKSTR"
    /\ lastArg[3] = "I2C_SDA_DATA"
    /\ lastArg[4] = "I2C_OTHER"

\* ---- the reference CRC-8: the remainder of the division of the message,
\* most significant bit first, with the seed added to its first eight bits
\* and eight zero bits appended, by x^8 + x^5 + x^4 + 1
Generator == <<1, 0, 0, 1, 1, 0, 0, 0, 1>>

\* bit j (1 = most significant) of the byte b
BitOf(b, j) == (b \div (2 ^ (8 - j))) % 2

\* the dividend for the message d: seed 0xFF, no reflection
Dividend(d) ==
    [k \in 1..((8 * Len(d)) + 8) |->
        ((IF k <= 8 * Len(d)
          THEN BitOf(d[((k - 1) \div 8) + 1], ((k - 1) % 8) + 1) ELSE 0)
         + (IF k <= 8 THEN 1 ELSE 0)) % 2]

RECURSIVE Divide(_, _, _)
Divide(p, k, n) ==
    IF k > n THEN p
    ELSE IF p[k] = 1
    THEN Divide([j \in 1..Len(p) |->
                    IF j >= k /\ j <= k + 8
                    THEN (p[j] + Generator[(j - k) + 1]) % 2 ELSE p[j]],
                k + 1, n)
    ELSE Divide(p, k + 1, n)

RECURSIVE BitsValue(_, _, _)
BitsValue(p, from, to) ==
    IF from > to THEN 0 ELSE (2 * BitsValue(p, from, to - 1)) + p[to]

\* no final XOR: the remainder is the checksum
RefCrc8(d) ==
    BitsValue(Divide(Dividend(d), 1, 8 * Len(d)),
              (8 * Len(d)) + 1, (8 * Len(d)) + 8)

\* the 5-byte frame of a command with an argument
ArgFrame(command, arguments) ==
    <<command \div 256, command % 256, arguments \div 256, arguments % 256,
      RefCrc8(<<arguments \div 256, arguments % 256>>)>>

\* C13: every frame begin writes is the 2-byte frame of stop-measurement
\* (opcode high byte, opcode low byte) or the 5-byte frame of one of its three
\* commands: opcode big-endian, the 16-bit argument big-endian, and the
\* reference checksum of the two argument bytes alone.
C13_FrameLayout ==
    lastOp = "begin" =>
        \A i \in 1..Len(trace) :
            /\ trace[i].op = "write"
            /\ Len(trace[i].bytes) \in {2, 5}
            /\ Len(trace[i].bytes) = 2 =>
                  trace[i].bytes = <<CMD_STOP_MEAS \div 256, CMD_STOP_MEAS % 256>>
            /\ Len(trace[i].bytes) = 5 =>
                  trace[i].bytes \in
                      {ArgFrame(COMMAND_CONTINUOUS_MEASUREMENT, 0),
                       ArgFrame(COMMAND_SET_MEASUREMENT_INTERVAL, lastArg[2]),
                       ArgFrame(COMMAND_AUTOMATIC_SELF_CALIBRATION,
                                IF lastArg[1] THEN 1 ELSE 0)}

C13_Witness ==
    /\ lastOp = "begin"
    /\ lastArg[2] = 1800
    /\ Len(trace) = 3
    /\ trace[2].bytes = <<70, 0, 7, 8, RefCrc8(<<7, 8>>)>>
    /\ trace[1].bytes[5] = trace[3].bytes[5]
    /\ trace[1].bytes[5] # trace[2].bytes[5]

\* C14: computeCRC8 of every byte sequence is the reference CRC-8 of that
\* sequence (seed 0xFF, polynomial 0x31, most significant bit first, no
\* reflection, no final XOR), a value of 8 bits; for 0xBE 0xEF it is 0x92.
C14_ReferenceCrc ==
    lastOp = "computeCRC8" =>
        /\ lastRet = RefCrc8(lastArg[1])
        /\ lastRet \in 0..255
        /\ lastArg[1] = <<190, 239>> => lastRet = 146

C14_Witness ==
    /\ lastOp = "computeCRC8"
    /\ lastArg[1] = <<190, 239>>
    /\ lastRet = 146

\* C15: computeCRC8 called again on the same bytes returns the same value;
\* checkCrc of a sequence with its own checksum is true, and checkCrc is true
\* only when the checksum it is given is computeCRC8 of the bytes it is given.
C15_CheckIffComputed ==
    /\ [](lastOp = "checkCrc" =>
            /\ lastRet <=> (lastArg[3] = computeCRC8(lastArg[2], Len(lastArg[2])))
            /\ (lastArg[2] = lastArg[1]
                /\ lastArg[3] = computeCRC8(lastArg[1], Len(lastArg[1])))
                  => lastRet = TRUE)
    /\ [][(lastOp = "computeCRC8" /\ lastOp' = "computeCRC8"
           /\ lastArg' = lastArg) => lastRet' = lastRet]_vars

C15_Witness ==
    /\ lastOp = "checkCrc"
    /\ lastArg[2] = <<190, 239>>
    /\ lastArg[3] = 146
    /\ lastRet = TRUE

\* number of bits set in the byte b
RECURSIVE BitCount(_)
BitCount(b) == IF b = 0 THEN 0 ELSE (b % 2) + BitCount(b \div 2)

\* number of bits in which the sequences a and b of the same length differ
RECURSIVE BitsApart(_, _)
BitsApart(a, b) ==
    IF a = <<>> THEN 0
    ELSE BitCount(Xor8(Head(a), Head(b))) + BitsApart(Tail(a), Tail(b))

\* C16: checkCrc of a 2-byte group that differs in exactly one bit from the
\* group d, with the checksum of d, is false.
C16_SingleBitDetected ==
    (/\ lastOp = "checkCrc"
     /\ Len(lastArg[1]) = 2
     /\ BitsApart(lastArg[1], lastArg[2]) = 1
     /\ lastArg[3] = computeCRC8(lastArg[1], 2)) => lastRet = FALSE

C16_Witness ==
    /\ lastOp = "checkCrc"
    /\ lastArg[1] = <<190, 239>>
    /\ lastArg[2] = <<190, 238>>
    /\ lastArg[3] = 146
    /\ lastRet = FALSE

\* C17: whatever path StartSingleMeasurement takes, the last entry of its log
\* is the stop-measurement command, and asc and interval are after the call
\* what they were before it.
C17_StopAndRestore ==
    [][lastOp' = "StartSingleMeasurement" =>
          /\ Len(trace') >= 1
          /\ IsWrite(trace'[Len(trace')], CMD_STOP_MEAS)
          /\ asc' = asc
          /\ interval' = interval
      ]_vars

\* begin failed at set-interval: stop is sent, TRUE and 5 are restored
C17_Witness ==
    /\ lastOp = "StartSingleMeasurement"
    /\ lastRet = FALSE
    /\ asc = TRUE
    /\ interval = 5
    /\ Len(trace) = 3
    /\ trace[2].result # I2C_OK
    /\ IsWrite(trace[3], CMD_STOP_MEAS)

\* number of entries of a log that satisfy Test
CountOf(log, Test(_)) == Cardinality({i \in 1..Len(log) : Test(log[i])})

Sleeps(log) == CountOf(log, LAMBDA e : e.op = "sleep")

ReadyCommands(log) == CountOf(log, LAMBDA e : IsWrite(e, COMMAND_GET_DATA_READY))

\* C19: StartSingleMeasurement polls data-ready at most 11 times, sleeping
\* once after each poll that was not ready: every sleep follows a data-ready
\* command, the log holds one data-ready command per sleep, and two more (the
\* poll that was ready and the one of readMeasurement) when a poll was
\* ready; after the eleventh sleep, and whenever no poll was ready, no
\* measurement is read and the call returns false.
C19_BoundedPolling ==
    lastOp = "StartSingleMeasurement" =>
        /\ Sleeps(trace) <= PollRetryInit + 1
        /\ Sleeps(trace) + (IF rmRet # "none" THEN 1 ELSE 0) <= PollRetryInit + 1
        /\ ReadyCommands(trace) =
              Sleeps(trace) + (IF rmRet # "none" THEN 2 ELSE 0)
        /\ \A i \in 1..Len(trace) :
              trace[i].op = "sleep" =>
                  \/ IsWrite(trace[i - 1], COMMAND_GET_DATA_READY)
                  \/ (trace[i - 1].op = "read"
                      /\ IsWrite(trace[i - 2], COMMAND_GET_DATA_READY))
        /\ rmRet = "none" => lastRet = FALSE
        /\ Sleeps(trace) = PollRetryInit + 1 => rmRet = "none"

C19_Witness ==
    /\ lastOp = "StartSingleMeasurement"
    /\ lastRet = FALSE
    /\ Sleeps(trace) = 11
    /\ ReadyCommands(trace) = 11

\* C20: a StartSingleMeasurement that returns true leaves in the cache the
\* sample it read; getCO2, getHumidity and getTemperature called after it,
\* each once in any order with no other call between, write nothing and read
\* nothing on the bus and return the field of that sample.
C20_FreshAfterSingle ==
    /\ []((lastOp = "StartSingleMeasurement" /\ lastRet = TRUE) =>
             /\ FromOneAnswer(trace, Cache)
             /\ single.sample = Cache)
    /\ [][lastOp' \in single.fresh =>
             /\ trace' = <<>>
             /\ lastRet' \in CachedValue(lastOp', single.sample)
         ]_vars

C20_Witness ==
    /\ lastOp = "getCO2"
    /\ single.fresh = {}
    /\ single.sample = FieldsOf(SampleA)
    /\ lastRet = 400
    /\ trace = <<>>

\* C18: no command written on the bus by any operation of the driver carries
\* the opcode 0x0006 of the device's single measurement command.
C18_NoNativeSingle ==
    \A i \in 1..Len(trace) :
        trace[i].op = "write" => Opcode(trace[i]) # CMD_START_SINGLE_MEAS

\* a single measurement that succeeded after two polls that were not ready
C18_Witness ==
    /\ lastOp = "StartSingleMeasurement"
    /\ lastRet = TRUE
    /\ Sleeps(trace) = 2
    /\ Commands(trace) = 3 + 5 + 1
    /\ IsWrite(trace[1], COMMAND_CONTINUOUS_MEASUREMENT)

\* ------------------------------------------------ configuration and reset
\* a bus script without its first n results
Drop(bus, n) == IF n >= Len(bus) THEN <<>> ELSE SubSeq(bus, n + 1, Len(bus))

\* the 16-bit argument of a five-byte command frame
Argument(e) == (e.bytes[3] * 256) + e.bytes[4]

\* the log is one transaction: command with argument arg
OneTransaction(log, command, arg) ==
    /\ Len(log) = 1
    /\ IsWrite(log[1], command)
    /\ Len(log[1].bytes) = 5
    /\ Argument(log[1]) = arg

\* C21: SoftReset first writes the two-byte soft-reset command. When that
\* transaction fails the call writes nothing more and returns false. When it
\* succeeds, what follows on the bus, the result of the call and the saved
\* asc and interval are those of begin called with the asc and interval saved
\* before the call, which is the stop-measurement command alone when the
\* saved interval is 0.
C21_ResetThenReplay ==
    [][lastOp' = "SoftReset" =>
          /\ Len(trace') >= 1
          /\ IsWrite(trace'[1], CMD_SOFT_RESET)
          /\ Len(trace'[1].bytes) = 2
          /\ trace'[1].result # I2C_OK =>
                /\ Len(trace') = 1
                /\ lastRet' = FALSE
                /\ asc' = asc /\ interval' = interval
          /\ trace'[1].result = I2C_OK =>
                LET replay == begin(World(Drop(lastArg'[1], trace'[1].attempts),
                                          MkReady(0, 0), SampleA),
                                    asc, interval, TRUE)
                    rest == SubSeq(trace', 2, Len(trace'))
                IN  /\ rest = replay.w.trace
                    /\ lastRet' = replay.ret
                    /\ asc' = asc /\ interval' = interval
                    /\ interval = 0 =>
                          (Len(rest) = 1 /\ IsWrite(rest[1], CMD_STOP_MEAS))
      ]_vars

\* the reset went through at its second attempt and the three commands of
\* begin followed, with the interval 1800 and the asc FALSE saved before
C21_Witness ==
    /\ lastOp = "SoftReset"
    /\ lastRet = TRUE
    /\ Len(trace) = 4
    /\ trace[1].attempts = 2
    /\ asc = FALSE
    /\ interval = 1800
    /\ IsWrite(trace[3], COMMAND_SET_MEASUREMENT_INTERVAL)
    /\ Argument(trace[3]) = 1800
    /\ IsWrite(trace[4], COMMAND_AUTOMATIC_SELF_CALIBRATION)
    /\ Argument(trace[4]) = 0

Setters ==
    {"setMeasurementInterval", "setAutoSelfCalibration",
     "setForceRecalibration", "setTemperatureOffset",
     "setAltitudeCompensation", "setAmbientPressure"}

\* C22: a setter that returns true has sent exactly one command, and a
\* setter that returns false has left the saved asc and interval as they
\* were before the call.
C22_NoPartialApply ==
    [][lastOp' \in Setters =>
          /\ lastRet' = TRUE => Commands(trace') = 1
          /\ lastRet' = FALSE => (asc' = asc /\ interval' = interval)
      ]_vars

\* C23: a pressure of 700..1200 mbar given right after an altitude was set
\* is refused without a command, and so is an altitude given right after
\* such a pressure was set; a command line with an altitude and then a
\* pressure, or a pressure and then an altitude, ends the program in
\* parse_cmdline with the first of the two still in the parameters.
C23_EitherAltitudeOrPressure ==
    [][/\ (/\ lastOp = "setAltitudeCompensation" /\ lastRet = TRUE
           /\ lastOp' = "setAmbientPressure"
           /\ lastArg'[1] >= 700 /\ lastArg'[1] <= 1200)
          => (lastRet' = FALSE /\ trace' = <<>>)
       /\ (/\ lastOp = "setAmbientPressure" /\ lastRet = TRUE
           /\ lastArg[1] >= 700 /\ lastArg[1] <= 1200
           /\ lastOp' = "setAltitudeCompensation")
          => (lastRet' = FALSE /\ trace' = <<>>)
       /\ (/\ lastOp' = "main"
           /\ Len(lastArg'[1]) = 2
           /\ lastArg'[1][1].opt = "m"
           /\ lastArg'[1][1].option >= -1520 /\ lastArg'[1][1].option <= 3040
           /\ lastArg'[1][2].opt = "p")
          => (/\ lastRet' = "EXIT_FAILURE"
              /\ lastArg'[2].altitude = lastArg'[1][1].option)
       /\ (/\ lastOp' = "main"
           /\ Len(lastArg'[1]) = 2
           /\ lastArg'[1][1].opt = "p"
           /\ lastArg'[1][1].option >= 700 /\ lastArg'[1][1].option <= 1200
           /\ lastArg'[1][2].opt = "m")
          => (/\ lastRet' = "EXIT_FAILURE"
              /\ lastArg'[2].pressure = lastArg'[1][1].option)
      ]_vars

\* C24: after a setForceRecalibration that returned true the saved asc is
\* FALSE, and so it is when the program has sent the recalibration value of
\* its command line and goes on to main_loop.
C24_RecalibrationClearsAsc ==
    [][/\ (lastOp' = "setForceRecalibration" /\ lastRet' = TRUE)
          => asc' = FALSE
       /\ (lastOp' = "main" /\ lastRet' = "main_loop"
           /\ lastArg'[2].frc # -1)
          => asc' = FALSE
      ]_vars

\* C25: setMeasurementInterval returns true only for an interval of 2..1800;
\* for any other interval it returns false, writes nothing on the bus and
\* leaves the saved interval as it was.
C25_IntervalValidated ==
    [][lastOp' = "setMeasurementInterval" =>
          /\ lastRet' = TRUE =>
                (lastArg'[1] >= 2 /\ lastArg'[1] <= 1800)
          /\ (lastArg'[1] < 2 \/ lastArg'[1] > 1800) =>
                (lastRet' = FALSE /\ trace' = <<>> /\ interval' = interval)
      ]_vars

\* 1801 was refused while 1800 was saved
C25_Witness ==
    /\ lastOp = "setMeasurementInterval"
    /\ lastArg = <<1801>>
    /\ lastRet = FALSE
    /\ trace = <<>>
    /\ interval = 1800

\* C26: the saved interval is 0 or within 2..1800 in every state.
C26_IntervalInRange == interval = 0 \/ (interval >= 2 /\ interval <= 1800)

\* C27: setTemperatureOffset called with a negative offset returns false
\* and writes nothing on the bus.
C27_NegativeOffsetRefused ==
    [][(lastOp' = "setTemperatureOffset" /\ lastArg'[1] < 0) =>
          (lastRet' = FALSE /\ trace' = <<>>)
      ]_vars

\* -400 degrees, whose tick value does not fit int16_t, was refused
C27_Witness ==
    /\ lastOp = "setTemperatureOffset"
    /\ lastArg = <<-1600>>
    /\ lastRet = FALSE
    /\ trace = <<>>

\* C28: setTemperatureOffset called with more than 25 degrees (100 quarters)
\* returns false and writes nothing, and the argument of a command it writes
\* is the offset times 100.
C28_OffsetAtMost25 ==
    [][lastOp' = "setTemperatureOffset" =>
          /\ lastArg'[1] > 100 => (lastRet' = FALSE /\ trace' = <<>>)
          /\ \A i \in 1..Len(trace') :
                Argument(trace'[i]) = lastArg'[1] * 25
      ]_vars

\* the altitude an int16_t caller passed as the uint16_t u
AsInt16(u) == IF u >= 32768 THEN u - 65536 ELSE u

\* C29: setAltitudeCompensation called with an altitude of -1520..3040,
\* a negative one arriving as altitude + 65536, sends one set-altitude
\* command with that argument and returns its result; called with any other
\* altitude it returns false and writes nothing.
C29_AltitudeRange ==
    [][lastOp' = "setAltitudeCompensation" =>
          IF AsInt16(lastArg'[1]) >= -1520 /\ AsInt16(lastArg'[1]) <= 3040
          THEN /\ OneTransaction(trace', COMMAND_SET_ALTITUDE_COMPENSATION,
                                 lastArg'[1])
               /\ lastRet' = (trace'[1].result = I2C_OK)
          ELSE lastRet' = FALSE /\ trace' = <<>>
      ]_vars

\* C30: setAmbientPressure called with 0 or with 700..1200 sends one
\* start-continuous-measurement command with that argument; called with any
\* other pressure it returns false and writes nothing.
C30_PressureValidated ==
    [][lastOp' = "setAmbientPressure" =>
          IF lastArg'[1] = 0 \/ (lastArg'[1] >= 700 /\ lastArg'[1] <= 1200)
          THEN OneTransaction(trace', COMMAND_CONTINUOUS_MEASUREMENT,
                              lastArg'[1])
          ELSE lastRet' = FALSE /\ trace' = <<>>
      ]_vars

\* ------------------------------------------------------- serial number
\* the two data bytes of group g of a 9-byte answer match its third byte
GroupOk(b, g) == RefCrc8(<<b[(3 * g) - 2], b[(3 * g) - 1]>>) = b[3 * g]

\* C31: getSerialNumber writes the two-byte read-serial-number command and,
\* when that succeeded, reads 9 bytes. It returns true exactly when both
\* transfers succeeded and each of the three groups of the answer carries the
\* checksum of its two data bytes, and then the caller's buffer holds bytes
\* 0, 1, 3, 4, 6 and 7 of the answer in this order, followed by a zero.
C31_SerialNumber ==
    [][lastOp' = "getSerialNumber" =>
          /\ Len(trace') >= 1
          /\ IsWrite(trace'[1], CMD_READ_SERIALNBR)
          /\ Len(trace'[1].bytes) = 2
          /\ trace'[1].result # I2C_OK => Len(trace') = 1
          /\ trace'[1].result = I2C_OK =>
                (Len(trace') = 2 /\ trace'[2].op = "read")
          /\ lastRet' =
                (/\ \A i \in 1..Len(trace') : trace'[i].result = I2C_OK
                 /\ Len(trace') = 2
                 /\ \A g \in 1..3 : GroupOk(trace'[2].bytes, g))
          /\ lastRet' = TRUE =>
                (/\ Len(trace'[2].bytes) = 9
                 /\ lastArg'[1] = <<trace'[2].bytes[1], trace'[2].bytes[2],
                                    trace'[2].bytes[4], trace'[2].bytes[5],
                                    trace'[2].bytes[7], trace'[2].bytes[8],
                                    0>>)
      ]_vars

\* "123456" was read after the command had been retried
C31_Witness ==
    /\ lastOp = "getSerialNumber"
    /\ lastRet = TRUE
    /\ lastArg = <<<<49, 50, 51, 52, 53, 54, 0>>>>
    /\ trace[1].attempts > 1

\* C32: when getSerialNumber returns false because a checksum of the answer
\* did not match, nothing has been stored in the caller's buffer.
C32_NothingFromBadAnswer ==
    (/\ lastOp = "getSerialNumber"
     /\ lastRet = FALSE
     /\ Len(trace) = 2
     /\ trace[2].result = I2C_OK) => lastArg[1] = <<>>

\* ------------------------------------------------------------ debug level
\* C33: a call made at the debug levels 0, 1 and 2 from the same state
\* against the same bus and device writes and reads the same frames with the
\* same attempts, returns the same result and leaves the same cache, flags,
\* asc and interval; the runs of a sequence of calls therefore stay in the
\* same state whatever the level.
C33_DebugOnlyOutput ==
    lastOp # "none" =>
        /\ lastArg[3][2] = lastArg[3][1]
        /\ lastArg[3][3] = lastArg[3][1]

\* a measurement read with a retry: nothing printed at level 0, the
\* announcements and the values at level 1, the retry as well at level 2
C33_Witness ==
    /\ lastOp = "readMeasurement"
    /\ lastRet = TRUE
    /\ lastArg[2] = 2
    /\ \E i \in 1..Len(trace) : trace[i].attempts > 1
    /\ lastArg[4][1] = <<>>
    /\ Len(lastArg[4][2]) = 5
    /\ Len(lastArg[4][3]) > 5

\* -------------------------------------------------------------- heat index
\* C36: for 90 degrees Fahrenheit and 80 percent the simple average, 92.46,
\* is above 79, and computeHeatIndex returns the value of the polynomial,
\* 113.32984930, which is more than 20 above the simple average.
C36_RothfuszBranch ==
    (lastOp = "computeHeatIndex" /\ lastArg = <<90, 80, TRUE>>) =>
        /\ simpleHeatIndex(90, 80) = Const(92, 46000000)
        /\ Greater(simpleHeatIndex(90, 80), Const(79, 0))
        /\ lastRet = polynomial(90, 80)
        /\ Greater(lastRet, Plus(simpleHeatIndex(90, 80), Const(20, 0)))
        /\ lastRet # simpleHeatIndex(90, 80)

C36_Witness ==
    /\ lastOp = "computeHeatIndex"
    /\ lastArg = <<90, 80, TRUE>>
    /\ lastRet = Const(113, 32984930)

\* --------------------------------------------- one sample, three accessors
\* C37: after an accessor has triggered a readMeasurement that succeeded,
\* each of the two other accessors, called once in either order with no other
\* call between, writes nothing and reads nothing on the bus and returns the
\* field of the sample that read put in the cache.
C37_OtherTwoFromCache ==
    /\ []((lastOp \in Accessors /\ rmRet = "ok") =>
             /\ sampled.sample = Cache
             /\ sampled.fresh = Accessors \ {lastOp})
    /\ [][lastOp' \in sampled.fresh =>
             /\ trace' = <<>>
             /\ lastRet' \in CachedValue(lastOp', sampled.sample)
             /\ Cache' = sampled.sample
         ]_vars

\* getCO2 or getTemperature has read SampleA, and getHumidity is the second
\* of the two other accessors called after it
C37_Witness ==
    /\ lastOp = "getHumidity"
    /\ sampled.fresh = {}
    /\ sampled.sample = FieldsOf(SampleA)
    /\ lastRet = sampled.sample.humidity
    /\ trace = <<>>

\* ------------------------------------------------------ the operating mode
\* C38: a call other than begin, StopMeasurement, SoftReset and
\* StartSingleMeasurement (and the program's start-up, which calls begin)
\* writes neither the start-continuous nor the stop-measurement command.
C38_SettersKeepMode ==
    lastOp \notin {"begin", "StopMeasurement", "SoftReset",
                   "StartSingleMeasurement", "main"} =>
        \A i \in 1..Len(trace) :
            trace[i].op = "write" =>
                Opcode(trace[i]) \notin
                    {COMMAND_CONTINUOUS_MEASUREMENT, CMD_STOP_MEAS}

\* ------------------------------------------------------- the retry count
\* C39: an iteration of the measurement loop calls SoftReset exactly when
\* its poll returned false and the RESET_RETRY polls before it returned
\* false too, with no reset among them: on the sixth false poll in a row. An
\* iteration whose poll returned true, and one that reset, leave the retry
\* count at RESET_RETRY.
C39_ResetOnSixthFalse ==
    [][lastOp' = "iteration" =>
          /\ (lastRet' = "reset") <=>
                 (lastArg'[1] = FALSE /\ prog.falses = RESET_RETRY)
          /\ (lastRet' = "reset") <=>
                 (\E i \in 1..Len(trace') :
                      IsWrite(trace'[i], CMD_SOFT_RESET))
          /\ (lastArg'[1] = TRUE \/ lastRet' = "reset") =>
                 prog'.reset_retry = RESET_RETRY
      ]_vars

\* the reset of the sixth false poll, after one of which the loop went on
C39_Witness ==
    /\ lastOp = "iteration"
    /\ lastRet = "reset"
    /\ lastArg = <<FALSE>>
    /\ prog.falses = 0
    /\ prog.reset_retry = RESET_RETRY
    /\ prog.loop_count = 10
    /\ prog.loop_set = 4

\* ------------------------------------------------- signals and the bus
\* C35: the transport is closed and the process ended only between the
\* transactions of the main flow: when closeout has run from the signal
\* handler, no sendCommand and no readbytes was in progress.
C35_NoCloseInTransaction ==
    prog.pc = "exit" => prog.during \notin {"sendCommand", "readbytes"}

\* ---------------------------------------------------- the stored line
\* C40: in the Dylos child, the text stored by appending a chunk to an
\* incomplete line fits the buffer with its terminator: it is shorter than
\* SBUF_SIZE bytes.
C40_LineFits ==
    (prog.pc = "child" /\ prog.sbuf.appended) =>
        prog.sbuf.len + 1 <= SBUF_SIZE

\* ------------------------------------------------------ a sample arrives
\* C34: after begin(true, 5) has returned true against a device that
\* answered every transaction of it and that produces its samples, the polls
\* of dataAvailable that follow lead to one that returns true.
C34_EventuallyReady ==
    (/\ lastOp = "begin"
     /\ lastRet = TRUE
     /\ lastArg = <<TRUE, 5, TRUE>>
     /\ \A i \in 1..Len(trace) : trace[i].result = I2C_OK)
        ~> (lastOp = "dataAvailable" /\ lastRet = TRUE)

\* a true poll of the device that begin(true, 5) has started
C34_Witness ==
    /\ lastOp = "dataAvailable"
    /\ lastRet = TRUE
    /\ device = [measuring |-> TRUE, notReady |-> 0]
    /\ asc = TRUE
    /\ interval = 5

====
